---- MODULE Spec2Model ----
(***************************************************************************)
(* Verification model of the nano-banana-render add-on: the Google         *)
(* provider client (SDK path with REST fallback), the REST-only providers' *)
(* response parsing, and the background render/edit workers with the       *)
(* main-thread callback queue.                                             *)
(***************************************************************************)
EXTENDS Integers, Sequences, FiniteSets, TLC

VARIABLES
    \* ---- gemini_api.py: module flags and one GeminiAPI client
    GENAI_AVAILABLE,   \* google-genai import succeeded (gemini_api.py:20-28)
    PIL_AVAILABLE,     \* Pillow import succeeded (gemini_api.py:10-17)
    client,            \* "none" before GeminiAPI(...) was constructed, then "ready"
    use_sdk,           \* GeminiAPI.use_sdk
    ncalls,            \* number of generate_image / edit_image calls made so far
    last,              \* record of the last generate_image / edit_image call
    \* ---- operators.py / threading_utils.py: the render request
    is_rendering,      \* scene.gemini_render.is_rendering
    status_text,       \* scene.gemini_render.status_text (which message it holds)
    current_thread,    \* class attribute GEMINI_OT_ai_render.current_thread (0: None)
    kind,              \* per worker: "none", "full" (FullRenderThread), "api", "edit"
    pc,                \* per worker: position in run()
    stop_event,        \* per worker: _stop_event
    render_result,     \* per worker: the nonlocal render_result of FullRenderThread.run
    outcome,           \* per worker: how run() ended
    command_queue,     \* BlenderThreadManager.command_queue
    main,              \* main thread: "idle" or "draining" (inside _process_queue)
    netcalls,          \* per worker: provider calls issued
    loaded,            \* per worker: its load_result_image callback ran
    reported,          \* per worker: its error status callback ran
    cleared,           \* per worker: a callback of it that clears the busy flag ran
    stop_pc,           \* per worker: where run() was when stop() was first called
    host_writes,       \* writes to Blender data made so far: which thread, which data
    enqueued,          \* per worker: the callbacks it handed to the main thread, in order
    executed,          \* per worker: its callbacks the main thread has run, in order
    \* ---- image_edit_thread.py: the edit request
    is_editing,        \* window_manager.nano_banana_editor.is_editing
    edit_status,       \* window_manager.nano_banana_editor.status_text
    timers,            \* callbacks registered with bpy.app.timers, in order
    \* ---- providers.py: the REST-only providers
    pcall,             \* record of the last call of a yunwu / openrouter / gptgod provider
    \* ---- request parameters computed from the caller's inputs
    gptgod,            \* a GPTGodProvider: configured id, base_model_id, last model sent
    tcall,             \* record of the last request built: sizes given, tier sent
    rcall,             \* record of the last aspect_ratio_utils call: sizes, ratio, results
    composed,          \* record of the last prompt built: user text, flags, full prompt
    request,           \* record of the last request body built: image files, parts
    \* ---- providers.py / ui_panel.py: the provider configuration
    providers,         \* ProviderManager.providers, the entries of providers.json
    selected_provider, \* "selected_provider" of settings.json ("": no file yet)
    props,             \* scene.gemini_render: provider_type, api_key, base URL, model id
    loading_provider_config,  \* props._loading_provider_config ("unset": no attribute)
    preferences_api_key,      \* api_key of the add-on preferences
    updated,           \* arguments of the last ProviderManager.update_provider call
    \* ---- threading_utils.py / operators.py: the render history
    render_history,    \* scene.gemini_render.render_history, oldest entry first
    data_images,       \* names of the images in bpy.data.images the add-on made
    nloads,            \* number of permanent history images named so far
    \* ---- threading_utils.py: the timer of BlenderThreadManager
    timer_registered,  \* BlenderThreadManager.timer_registered
    process_queue_timers,  \* how many _process_queue timers bpy.app.timers holds
    caller_pc,         \* per thread: position in execute_in_main_thread
    stops              \* number of stop_timer calls made so far

gvars == <<GENAI_AVAILABLE, PIL_AVAILABLE, client, use_sdk, ncalls, last>>

rvars == <<is_rendering, status_text, current_thread, kind, pc, stop_event,
           render_result, outcome, command_queue, main, netcalls, loaded, reported,
           cleared, stop_pc, host_writes, enqueued, executed>>

evars == <<is_editing, edit_status, timers>>

pvars == <<pcall>>

ovars == <<request>>

cvars == <<providers, selected_provider, props, loading_provider_config,
           preferences_api_key, updated>>

hvars == <<render_history, data_images, nloads>>

mvars == <<timer_registered, process_queue_timers, caller_pc, stops>>

svars == <<ovars, cvars, hvars, mvars>>

uvars == <<gptgod, tcall, rcall, composed, svars>>

vars == <<gvars, rvars, evars, pvars, uvars>>

\* ------------------------------------------------------------------ bounds
MaxCalls == 2
MaxWorkers == 2
MaxLoads == 12
MaxCommands == 2
MaxStops == 2
MaxItems == 2
MaxIdLen == 6
MaxSide == 24
MaxTextLen == 2

\* ------------------------------------------------------------------ inputs
\* Requested output sizes (threading_utils.py:710, image_edit_thread.py:58-86).
Dims == {1024, 2048, 4096}

\* What client.models.generate_content can do (the SDK transport).
SdkResponses ==
    {"raises", "no_candidates", "content_none", "no_parts", "image",
     "image_undecodable", "text_only", "no_image_no_text"}

\* What requests.post(...) and the body it returns can be (the REST transport).
RestResponses ==
    {"network_error", "http_403", "http_500", "bad_json",
     "no_candidates", "no_content", "image_png", "image_jpeg", "image_empty",
     "image_empty_with_text", "text_only", "no_image_no_text"}

\* ------------------------------------------------------------------ results
Image(mime, src) == [kind |-> "image", exc |-> "none", mime |-> mime, src |-> src]

\* gemini_api.py:737-754: a 100x100 blue PNG built by _create_simple_png.
create_placeholder_image(src) ==
    [kind |-> "placeholder", exc |-> "none", mime |-> "image/png", src |-> src]

Raise(exc, src) == [kind |-> "error", exc |-> exc, mime |-> "none", src |-> src]

NoCall ==
    [op |-> "none", width |-> 0, height |-> 0, started_sdk |-> FALSE,
     sdk_resp |-> "none",
     rest_resp |-> "none", trace |-> <<>>, result |-> Raise("none", "none"),
     rest_width |-> 0, rest_height |-> 0]

\* ------------------------------------------------------------------ gemini_api.py
\* requests, json and base64 are imported only when the google-genai import
\* failed (gemini_api.py:26-32); the REST code uses them unconditionally.
rest_modules_imported == ~GENAI_AVAILABLE

\* Defaults of _generate_with_rest(width, height) and _edit_with_rest(width, height).
DEFAULT_WIDTH == 1024
DEFAULT_EDIT_WIDTH == 0

\* _generate_with_rest: the value returned or the exception that leaves it.
\* Without the REST modules, base64.b64encode raises NameError inside the try and
\* evaluating `except requests.RequestException` raises NameError again, which
\* leaves the function as it is.
generate_with_rest(rest_resp) ==
    IF ~rest_modules_imported THEN Raise("NameError", "rest")
    ELSE CASE rest_resp \in {"network_error", "http_403", "http_500", "bad_json",
                             "no_candidates", "no_content"}
                -> Raise("GeminiAPIError", "rest")
           [] rest_resp = "image_png" -> Image("image/png", "rest")
           [] rest_resp = "image_jpeg" -> Image("image/jpeg", "rest")
           [] rest_resp \in {"text_only", "image_empty_with_text"}
                -> create_placeholder_image("rest")
           [] OTHER -> Raise("GeminiAPIError", "rest")

\* _edit_with_rest: as above, but a response without an image is always an error,
\* and the returned mime type is the response's (default image/png).
edit_with_rest(rest_resp) ==
    IF ~rest_modules_imported THEN Raise("NameError", "rest")
    ELSE CASE rest_resp = "image_png" -> Image("image/png", "rest")
           [] rest_resp = "image_jpeg" -> Image("image/jpeg", "rest")
           [] OTHER -> Raise("GeminiAPIError", "rest")

\* The try body of _generate_with_sdk after the PIL check: what it returns or raises
\* for each SDK response. "SDKError" stands for every exception that is not a
\* GeminiAPIError (network failure, AttributeError on a None content, PIL failing
\* to decode the inline data).
generate_sdk_body(sdk_resp) ==
    CASE sdk_resp \in {"raises", "content_none", "image_undecodable"}
            -> Raise("SDKError", "sdk")
      [] sdk_resp \in {"no_candidates", "no_parts"} -> Raise("GeminiAPIError", "sdk")
      [] sdk_resp = "image" -> Image("image/png", "sdk")
      [] sdk_resp = "text_only" -> create_placeholder_image("sdk")
      [] OTHER -> Raise("GeminiAPIError", "sdk")

\* The try body of _edit_with_sdk after the PIL check.
edit_sdk_body(sdk_resp) ==
    CASE sdk_resp \in {"raises", "content_none", "image_undecodable"}
            -> Raise("SDKError", "sdk")
      [] sdk_resp = "image" -> Image("image/png", "sdk")
      [] OTHER -> Raise("GeminiAPIError", "sdk")

\* A finished call: its result, the client's use_sdk afterwards, the transports
\* entered in order, and the width/height the REST function was called with.
Done(result, sdk, trace, rw, rh) ==
    [result |-> result, use_sdk |-> sdk, trace |-> trace,
     rest_width |-> rw, rest_height |-> rh]

\* Mutant of the except clause: every exception is re-raised, nothing falls back.
generate_sdk_except_reraise(body, rest_resp) == Done(body, TRUE, <<"sdk">>, 0, 0)

\* The except clause of _generate_with_sdk: a GeminiAPIError is re-raised, anything
\* else demotes the client and calls _generate_with_rest without width and height.
generate_sdk_except(body, rest_resp) ==
    IF body.kind /= "error" THEN Done(body, TRUE, <<"sdk">>, 0, 0)
    ELSE IF body.exc = "GeminiAPIError" THEN Done(body, TRUE, <<"sdk">>, 0, 0)
    ELSE Done(generate_with_rest(rest_resp), FALSE, <<"sdk", "rest">>,
              DEFAULT_WIDTH, DEFAULT_WIDTH)

\* The except clause of _edit_with_sdk.
edit_sdk_except(body, rest_resp) ==
    IF body.kind /= "error" THEN Done(body, TRUE, <<"sdk">>, 0, 0)
    ELSE IF body.exc = "GeminiAPIError" THEN Done(body, TRUE, <<"sdk">>, 0, 0)
    ELSE Done(edit_with_rest(rest_resp), FALSE, <<"sdk", "rest">>,
              DEFAULT_EDIT_WIDTH, DEFAULT_EDIT_WIDTH)

generate_with_sdk(sdk_resp, rest_resp, width, height) ==
    IF ~PIL_AVAILABLE
    THEN Done(generate_with_rest(rest_resp), FALSE, <<"sdk", "rest">>, width, height)
    ELSE generate_sdk_except(generate_sdk_body(sdk_resp), rest_resp)

edit_with_sdk(sdk_resp, rest_resp, width, height) ==
    IF ~PIL_AVAILABLE
    THEN Done(edit_with_rest(rest_resp), FALSE, <<"sdk", "rest">>, width, height)
    ELSE edit_sdk_except(edit_sdk_body(sdk_resp), rest_resp)

\* Mutant of the dispatch: the SDK function is entered whatever use_sdk is.
generate_image_sdk_first(sdk_resp, rest_resp, width, height) ==
    generate_with_sdk(sdk_resp, rest_resp, width, height)

\* GeminiAPI.generate_image: dispatch on use_sdk; nothing is caught here.
generate_image(sdk_resp, rest_resp, width, height) ==
    IF use_sdk THEN generate_with_sdk(sdk_resp, rest_resp, width, height)
    ELSE Done(generate_with_rest(rest_resp), FALSE, <<"rest">>, width, height)

\* The except clause of GeminiAPI.edit_image: every exception that is not a
\* GeminiAPIError is wrapped into one.
edit_image_except(d) ==
    IF d.result.kind = "error" /\ d.result.exc /= "GeminiAPIError"
    THEN [d EXCEPT !.result = Raise("GeminiAPIError", d.result.src)]
    ELSE d

edit_image(sdk_resp, rest_resp, width, height) ==
    edit_image_except(
        IF use_sdk THEN edit_with_sdk(sdk_resp, rest_resp, width, height)
        ELSE Done(edit_with_rest(rest_resp), FALSE, <<"rest">>, width, height))

\* GeminiAPI.__init__: the SDK is used only when both libraries are present and the
\* client setup does not raise.
NewClient(setup_ok) ==
    /\ client = "none"
    /\ client' = "ready"
    /\ use_sdk' = (GENAI_AVAILABLE /\ PIL_AVAILABLE /\ setup_ok)
    /\ UNCHANGED <<GENAI_AVAILABLE, PIL_AVAILABLE, ncalls, last>>
    /\ UNCHANGED <<rvars, evars, pvars, uvars>>

Record(op, d, sdk_resp, rest_resp, width, height) ==
    [op |-> op, width |-> width, height |-> height, started_sdk |-> use_sdk,
     sdk_resp |-> sdk_resp, rest_resp |-> rest_resp, trace |-> d.trace,
     result |-> d.result, rest_width |-> d.rest_width, rest_height |-> d.rest_height]

\* The responses that matter to a call: an SDK response only when the client is on
\* the SDK path, a REST response only when the call enters the REST function.
SdkInputs == IF use_sdk THEN SdkResponses ELSE {"none"}

RestInputs(d) == IF d.trace[Len(d.trace)] = "rest" THEN RestResponses ELSE {"none"}

GenerateImage(sdk_resp, width, height) ==
    /\ client = "ready"
    /\ ncalls < MaxCalls
    /\ \E rest_resp \in RestInputs(generate_image(sdk_resp, "none", width, height)) :
          LET d == generate_image(sdk_resp, rest_resp, width, height)
          IN /\ use_sdk' = d.use_sdk
             /\ last' = Record("generate", d, sdk_resp, rest_resp, width, height)
    /\ ncalls' = ncalls + 1
    /\ UNCHANGED <<GENAI_AVAILABLE, PIL_AVAILABLE, client>>
    /\ UNCHANGED <<rvars, evars, pvars, uvars>>

EditImage(sdk_resp, width, height) ==
    /\ client = "ready"
    /\ ncalls < MaxCalls
    /\ \E rest_resp \in RestInputs(edit_image(sdk_resp, "none", width, height)) :
          LET d == edit_image(sdk_resp, rest_resp, width, height)
          IN /\ use_sdk' = d.use_sdk
             /\ last' = Record("edit", d, sdk_resp, rest_resp, width, height)
    /\ ncalls' = ncalls + 1
    /\ UNCHANGED <<GENAI_AVAILABLE, PIL_AVAILABLE, client>>
    /\ UNCHANGED <<rvars, evars, pvars, uvars>>

\* ------------------------------------------------------------------ workers
Workers == 1..MaxWorkers

NoThread == 0

RenderOutcomes == {"success", "error", "nopath"}

is_alive(w) == pc[w] \notin {"unborn", "done"}

\* The next thread object to be constructed.
Fresh(w) == pc[w] = "unborn" /\ \A v \in Workers : v < w => pc[v] /= "unborn"

Callback(w, f, text, flag) == [w |-> w, f |-> f, text |-> text, flag |-> flag]

\* update_render_status builds the closure _update and hands it to the manager.
update_render_status(w, text, flag) == Callback(w, "status", text, flag)

\* Mutant of the queue discipline: the callback is put in front of those waiting.
execute_in_main_thread_first(queue, cb) == <<cb>> \o queue

\* BlenderThreadManager.execute_in_main_thread: command_queue.put.
execute_in_main_thread(queue, cb) == Append(queue, cb)

\* Thread.stop() on each thread of S: _stop_event.set().
stop(S) ==
    /\ stop_event' = [w \in Workers |-> stop_event[w] \/ w \in S]
    /\ stop_pc' = [w \in Workers |->
                      IF w \in S /\ ~stop_event[w] THEN pc[w] ELSE stop_pc[w]]

\* The thread an operator reaches through th, if it is alive.
AliveThread(th) == IF th /= NoThread /\ is_alive(th) THEN {th} ELSE {}

Finish(w, how) ==
    /\ pc' = [pc EXCEPT ![w] = "done"]
    /\ outcome' = [outcome EXCEPT ![w] = how]

Goto(w, where) ==
    /\ pc' = [pc EXCEPT ![w] = where]
    /\ UNCHANGED outcome

\* A write to Blender data: the thread that executes it and the data written
\* ("props": properties of the scene or window manager, "scene": render settings,
\* "image": image datablocks and their file settings).
HostWrite(thread, target) == [thread |-> thread, target |-> target]

written(S) == host_writes' = host_writes \cup S

\* The callbacks that a step of worker w has put at the end of a queue.
handed_over(w, before, after) ==
    enqueued' = [enqueued EXCEPT ![w] = @ \o SubSeq(after, Len(before) + 1, Len(after))]

\* The main thread has called cb; raised: its body raised before writing anything.
ran(cb, raised) ==
    executed' = [executed EXCEPT ![cb.w] = Append(@, [cb |-> cb, raised |-> raised])]

\* ------------------------------------------------------------------ operators
AiRenderPaths == {"invalid", "no_key", "raises", "ok"}

\* GEMINI_OT_ai_render.execute. self.current_thread on the operator instance
\* resolves to the class attribute; the assignment at the end creates an attribute
\* of the instance, which is dropped with it, so the class attribute is not written.
\* join(timeout) only bounds the wait and changes nothing.
ai_render(path) ==
    /\ main = "idle"
    /\ LET seen == IF path = "invalid" THEN {} ELSE AliveThread(current_thread)
       IN  /\ stop(seen)
           /\ IF path = "ok"
              THEN \E w \in Workers :
                     /\ Fresh(w)
                     /\ kind' = [kind EXCEPT ![w] = "full"]
                     /\ pc' = [pc EXCEPT ![w] = "start"]
                     /\ is_rendering' = TRUE
                     /\ status_text' = "starting"
              ELSE /\ is_rendering' = FALSE
                   /\ status_text' = path
                   /\ UNCHANGED <<kind, pc>>
    /\ written({HostWrite("main", "props")})
    /\ UNCHANGED <<current_thread, render_result, outcome, command_queue, main,
                   netcalls, loaded, reported, cleared, enqueued, executed>>
    /\ UNCHANGED <<gvars, evars, pvars, uvars>>

\* GEMINI_OT_stop_render.execute
stop_render ==
    /\ main = "idle"
    /\ stop(AliveThread(current_thread))
    /\ is_rendering' = FALSE
    /\ status_text' = "cancelled"
    /\ written({HostWrite("main", "props")})
    /\ UNCHANGED <<current_thread, kind, pc, render_result, outcome, command_queue,
                   main, netcalls, loaded, reported, cleared, enqueued, executed>>
    /\ UNCHANGED <<gvars, evars, pvars, uvars>>

\* GEMINI_OT_reset_state.execute
reset_state ==
    /\ main = "idle"
    /\ is_rendering' = FALSE
    /\ status_text' = "reset"
    /\ written({HostWrite("main", "props")})
    /\ stop(IF current_thread /= NoThread THEN {current_thread} ELSE {})
    /\ current_thread' = NoThread
    /\ UNCHANGED <<kind, pc, render_result, outcome, command_queue, main, netcalls,
                   loaded, reported, cleared, enqueued, executed>>
    /\ UNCHANGED <<gvars, evars, pvars, uvars>>

\* FullRenderThread.stop / APIThread.stop called on a live thread object by any
\* holder of a reference to it.
ThreadStop(w) ==
    /\ is_alive(w)
    /\ kind[w] \in {"full", "api"}
    /\ ~stop_event[w]
    /\ stop({w})
    /\ UNCHANGED <<is_rendering, status_text, current_thread, kind, pc, render_result,
                   outcome, command_queue, main, netcalls, loaded, reported, cleared,
                   host_writes, enqueued, executed>>
    /\ UNCHANGED <<gvars, evars, pvars, uvars>>

\* APIThread(...).start(): the class is offered to callers that already hold a
\* depth image.
StartAPIThread(w) ==
    /\ Fresh(w)
    /\ kind' = [kind EXCEPT ![w] = "api"]
    /\ pc' = [pc EXCEPT ![w] = "api_start"]
    /\ UNCHANGED <<is_rendering, status_text, current_thread, stop_event, render_result,
                   outcome, command_queue, main, netcalls, loaded, reported, cleared,
                   stop_pc, host_writes, enqueued, executed>>
    /\ UNCHANGED <<gvars, evars, pvars, uvars>>

\* ------------------------------------------------------------------ render workers
\* Mutant of the except clause: the exception leaves run(), nothing is queued.
render_except_escapes(w, queue) == queue

\* The except clause of run(): the error status, with is_rendering False, is queued.
render_except(w, queue) ==
    execute_in_main_thread(queue, update_render_status(w, "error", FALSE))

\* Lines after the last stop check: loading status, load_result_image, final status.
render_deliver(w, queue) ==
    LET q1 == execute_in_main_thread(queue, update_render_status(w, "loading", TRUE))
        q2 == execute_in_main_thread(q1, Callback(w, "load", "none", FALSE))
    IN  execute_in_main_thread(q2, update_render_status(w, "completed", FALSE))

WorkerFrame ==
    /\ UNCHANGED <<is_rendering, status_text, current_thread, kind, stop_event, main,
                   loaded, reported, cleared, stop_pc, executed>>
    /\ UNCHANGED <<gvars, evars, pvars, uvars>>

\* A step of run() that only reads Blender data and queues callbacks.
QueueingFrame(w) ==
    /\ WorkerFrame
    /\ UNCHANGED host_writes
    /\ handed_over(w, command_queue, command_queue')

\* FullRenderThread.run up to the wait loop: first status, first stop check, the
\* depth render handed to the main thread.
FullStart(w) ==
    /\ kind[w] = "full" /\ pc[w] = "start"
    /\ LET q1 == execute_in_main_thread(command_queue,
                                        update_render_status(w, "rendering", TRUE))
       IN  IF stop_event[w]
           THEN /\ command_queue' = q1
                /\ Finish(w, "cancelled")
           ELSE /\ command_queue' =
                       execute_in_main_thread(q1, Callback(w, "render", "none", FALSE))
                /\ Goto(w, "wait")
    /\ UNCHANGED <<render_result, netcalls>>
    /\ QueueingFrame(w)

\* The wait loop ends (result set, stop requested, or 180 s elapsed), then the
\* second stop check and the checks of the render result.
FullAfterRender(w) ==
    /\ kind[w] = "full" /\ pc[w] = "wait"
    /\ IF stop_event[w]
       THEN /\ Finish(w, "cancelled")
            /\ UNCHANGED command_queue
       ELSE IF render_result[w] /= "success"
       THEN /\ command_queue' = render_except(w, command_queue)
            /\ Finish(w, "failed")
       ELSE /\ command_queue' = execute_in_main_thread(command_queue,
                                        update_render_status(w, "sending", TRUE))
            /\ Goto(w, "precall")
    /\ UNCHANGED <<render_result, netcalls>>
    /\ QueueingFrame(w)

\* APIThread.run up to the provider call.
APIStart(w) ==
    /\ kind[w] = "api" /\ pc[w] = "api_start"
    /\ IF stop_event[w]
       THEN /\ Finish(w, "cancelled")
            /\ UNCHANGED command_queue
       ELSE /\ command_queue' = execute_in_main_thread(command_queue,
                                        update_render_status(w, "sending", TRUE))
            /\ Goto(w, "precall")
    /\ UNCHANGED <<render_result, netcalls>>
    /\ QueueingFrame(w)

\* The style reference of the scene: none in use, an image without a file path
\* (generated), a packed image, an image with a file path.
ReferenceImages == {"none", "generated", "packed", "file"}

\* save_reference_image_temp on the calling thread; the result is the set of writes
\* to Blender data it makes. pil: "from PIL import Image" and "import numpy" succeed.
\* Without them the image without a file path is saved by save_render, between
\* assignments to filepath_raw, file_format and filepath of the datablock.
save_reference_image_temp(thread, reference_image, pil) ==
    IF reference_image = "generated" /\ ~pil
    THEN {HostWrite(thread, "image")}
    ELSE {}

\* save_reference_image_temp is called and api_client.generate_image is entered.
Call(w, reference_image, pil) ==
    /\ kind[w] \in {"full", "api"} /\ pc[w] = "precall"
    /\ written(save_reference_image_temp("worker", reference_image, pil))
    /\ UNCHANGED enqueued
    /\ netcalls' = [netcalls EXCEPT ![w] = @ + 1]
    /\ Goto(w, "incall")
    /\ UNCHANGED <<render_result, command_queue>>
    /\ WorkerFrame

\* generate_image returns an image or raises.
Return(w, raised) ==
    /\ kind[w] \in {"full", "api"} /\ pc[w] = "incall"
    /\ IF raised
       THEN /\ command_queue' = render_except(w, command_queue)
            /\ Finish(w, "failed")
       ELSE /\ Goto(w, "returned")
            /\ UNCHANGED command_queue
    /\ UNCHANGED <<render_result, netcalls>>
    /\ QueueingFrame(w)

\* The stop check after the call and the handing over of the result.
Deliver(w) ==
    /\ kind[w] \in {"full", "api"} /\ pc[w] = "returned"
    /\ IF stop_event[w]
       THEN /\ Finish(w, "cancelled")
            /\ UNCHANGED command_queue
       ELSE /\ command_queue' = render_deliver(w, command_queue)
            /\ Finish(w, "succeeded")
    /\ UNCHANGED <<render_result, netcalls>>
    /\ QueueingFrame(w)

\* ------------------------------------------------------------------ edit worker
\* ImageEditThread._execute_in_main_thread: one bpy.app.timers.register per callback;
\* Blender runs due timers in the order of registration.
register_timer(list, cb) == Append(list, cb)

update_status(w, text) == Callback(w, "edit_status", text, FALSE)

\* Mutant of the finally clause: after an exception no reset_flag is registered.
edit_except_no_reset(w, list) == register_timer(list, update_status(w, "error"))

\* The except clause, then the finally clause of ImageEditThread.run.
edit_except(w, list) ==
    LET t1 == register_timer(list, update_status(w, "error"))
    IN  register_timer(t1, Callback(w, "reset_flag", "none", FALSE))

\* The rest of the try block after edit_image returned, then the finally clause.
edit_deliver(w, list) ==
    LET t1 == register_timer(list, update_status(w, "loading"))
        t2 == register_timer(t1, Callback(w, "edit_load", "none", FALSE))
        t3 == register_timer(t2, Callback(w, "add_history", "none", FALSE))
        t4 == register_timer(t3, update_status(w, "completed"))
    IN  register_timer(t4, Callback(w, "reset_flag", "none", FALSE))

EditFrame(w) ==
    /\ UNCHANGED <<is_rendering, status_text, current_thread, kind, stop_event,
                   render_result, command_queue, main, loaded, reported, cleared,
                   stop_pc, host_writes, executed>>
    /\ UNCHANGED <<gvars, pvars, uvars, is_editing, edit_status>>
    /\ handed_over(w, timers, timers')

\* ImageEditThread(...).start() by a caller that raised is_editing first.
StartEditThread(w) ==
    /\ Fresh(w)
    /\ main = "idle"
    /\ kind' = [kind EXCEPT ![w] = "edit"]
    /\ pc' = [pc EXCEPT ![w] = "edit_start"]
    /\ is_editing' = TRUE
    /\ edit_status' = "processing"
    /\ written({HostWrite("main", "props")})
    /\ UNCHANGED <<is_rendering, status_text, current_thread, stop_event, render_result,
                   outcome, command_queue, main, netcalls, loaded, reported, cleared,
                   stop_pc, timers, enqueued, executed>>
    /\ UNCHANGED <<gvars, pvars, uvars>>

\* The parameters of ImageEditThread.__init__ (there is no **kwargs).
INIT_PARAMETERS ==
    {"image_path", "edit_prompt", "mask_path", "reference_path", "api_key", "context",
     "original_image_name", "temp_dir", "resolution", "original_size"}

\* The keyword arguments of the constructor call in apply_edit.
APPLY_EDIT_KEYWORDS ==
    INIT_PARAMETERS \cup {"provider_type", "provider_base_url", "provider_model_id"}

\* A call with a keyword that is no parameter raises TypeError.
constructs(keywords) == keywords \subseteq INIT_PARAMETERS

\* How far an execution of apply_edit gets: one of the three early returns, an
\* exception while the images are saved, no inpaint guide found, or the constructor
\* call of the worker.
ApplyEditPaths == {"no_image", "no_prompt", "no_key", "raises", "no_guide", "start"}

\* NANO_BANANA_OT_apply_edit.execute. is_editing is not read. After the early
\* returns is_editing is set; the except clause and the missing guide clear it.
apply_edit(path) ==
    /\ main = "idle"
    /\ IF path \in {"no_image", "no_prompt", "no_key"}
       THEN UNCHANGED <<is_editing, edit_status, kind, pc, host_writes>>
       ELSE IF path = "no_guide"
       THEN /\ is_editing' = FALSE
            /\ edit_status' = "processing"
            /\ written({HostWrite("main", "props"), HostWrite("main", "image")})
            /\ UNCHANGED <<kind, pc>>
       ELSE IF path = "start" /\ constructs(APPLY_EDIT_KEYWORDS)
       THEN \E w \in Workers :
              /\ Fresh(w)
              /\ kind' = [kind EXCEPT ![w] = "edit"]
              /\ pc' = [pc EXCEPT ![w] = "edit_start"]
              /\ is_editing' = TRUE
              /\ edit_status' = "processing"
              /\ written({HostWrite("main", "props"), HostWrite("main", "image")})
       ELSE /\ is_editing' = FALSE
            /\ edit_status' = "error"
            /\ written({HostWrite("main", "props"), HostWrite("main", "image")})
            /\ UNCHANGED <<kind, pc>>
    /\ UNCHANGED <<is_rendering, status_text, current_thread, stop_event, render_result,
                   outcome, command_queue, main, netcalls, loaded, reported, cleared,
                   stop_pc, timers, enqueued, executed>>
    /\ UNCHANGED <<gvars, pvars, uvars>>

\* ImageEditThread.run up to the call of edit_image.
EditStart(w) ==
    /\ kind[w] = "edit" /\ pc[w] = "edit_start"
    /\ timers' = register_timer(timers, update_status(w, "sending"))
    /\ netcalls' = [netcalls EXCEPT ![w] = @ + 1]
    /\ Goto(w, "edit_call")
    /\ EditFrame(w)

\* edit_image returns an image or raises; the worker runs to its end.
EditReturn(w, raised) ==
    /\ kind[w] = "edit" /\ pc[w] = "edit_call"
    /\ IF raised
       THEN /\ timers' = edit_except(w, timers)
            /\ Finish(w, "failed")
       ELSE /\ timers' = edit_deliver(w, timers)
            /\ Finish(w, "succeeded")
    /\ UNCHANGED netcalls
    /\ EditFrame(w)

\* ------------------------------------------------------------------ main thread
\* The Blender data written by the body of a callback: _update and the closures of
\* the edit worker write properties, _load_image and load_image create the result
\* image, the render closures change the render settings of the scene.
callback_target(f) ==
    CASE f \in {"load", "edit_load"} -> "image"
      [] f = "render" -> "scene"
      [] OTHER -> "props"

\* One turn of the loop of BlenderThreadManager._process_queue: the oldest callback
\* is taken and run; the timer callback returns when the queue is empty.
ProcessQueue(r, raised) ==
    /\ command_queue /= <<>>
    /\ LET cb == Head(command_queue)
       IN  /\ command_queue' = Tail(command_queue)
           /\ main' = IF Tail(command_queue) = <<>> THEN "idle" ELSE "draining"
           /\ IF cb.f = "status" /\ ~raised
              THEN /\ status_text' = cb.text
                   /\ is_rendering' = cb.flag
              ELSE UNCHANGED <<status_text, is_rendering>>
           /\ render_result' = IF cb.f = "render"
                               THEN [render_result EXCEPT
                                       ![cb.w] = IF raised THEN "error" ELSE r]
                               ELSE render_result
           /\ ran(cb, raised)
           /\ loaded' = [loaded EXCEPT ![cb.w] = @ \/ cb.f = "load"]
           /\ reported' = [reported EXCEPT
                             ![cb.w] = @ \/ (cb.f = "status" /\ cb.text = "error")]
           /\ cleared' = [cleared EXCEPT ![cb.w] = @ \/ (cb.f = "status" /\ ~cb.flag)]
           /\ written(IF raised THEN {} ELSE {HostWrite("main", callback_target(cb.f))})
    /\ UNCHANGED <<current_thread, kind, pc, stop_event, outcome, netcalls, stop_pc,
                   enqueued>>
    /\ UNCHANGED <<gvars, evars, pvars, uvars>>

\* The closures of the edit worker whose body is one try block: an exception in
\* them ends them before they write; update and reset_flag are two assignments.
EditRaisers == {"edit_load", "add_history"}

\* Blender runs the oldest timer registered by an edit worker and drops it.
TimerFire(raised) ==
    /\ main = "idle"
    /\ timers /= <<>>
    /\ raised => Head(timers).f \in EditRaisers
    /\ LET cb == Head(timers)
       IN  /\ timers' = Tail(timers)
           /\ ran(cb, raised)
           /\ edit_status' = IF cb.f = "edit_status" THEN cb.text ELSE edit_status
           /\ is_editing' = IF cb.f = "reset_flag" THEN FALSE ELSE is_editing
           /\ loaded' = [loaded EXCEPT ![cb.w] = @ \/ cb.f = "edit_load"]
           /\ reported' = [reported EXCEPT
                             ![cb.w] = @ \/ (cb.f = "edit_status" /\ cb.text = "error")]
           /\ cleared' = [cleared EXCEPT ![cb.w] = @ \/ cb.f = "reset_flag"]
           /\ written(IF raised THEN {} ELSE {HostWrite("main", callback_target(cb.f))})
    /\ UNCHANGED <<is_rendering, status_text, current_thread, kind, pc, stop_event,
                   render_result, outcome, command_queue, main, netcalls, stop_pc,
                   enqueued>>
    /\ UNCHANGED <<gvars, pvars, uvars>>

\* ------------------------------------------------------------------ providers
\* Image bytes by what they are; "empty" is the byte string of length 0.
Bytes == {"empty", "png", "jpeg"}

Plain(t) == [t |-> t, body |-> "none"]

\* An http(s) URL, by what a GET of it gives: a body, or "dead" (no 200 answer).
Url == {[t |-> "url", body |-> b] : b \in Bytes \cup {"dead"}}

\* A data:image URL (or inline data), by what its base64 payload decodes to;
\* "invalid" cannot be split or decoded.
Data == {[t |-> "data", body |-> b] : b \in Bytes \cup {"invalid"}}

PImage(bytes, shape) == [kind |-> "image", bytes |-> bytes, mime |-> "image/png", shape |-> shape]

PRaise(shape) == [kind |-> "error", bytes |-> "none", mime |-> "none", shape |-> shape]

\* _ensure_png: PNG bytes when PIL can open the input, else the input as it is.
ensure_png(b) == IF PIL_AVAILABLE /\ b \in {"png", "jpeg"} THEN "png" ELSE b

\* _download_image followed by _ensure_png, as every URL branch does.
from_url(e, shape) ==
    IF e.body = "dead" THEN PRaise(shape) ELSE PImage(ensure_png(e.body), shape)

\* split(",", 1), base64.b64decode and _ensure_png, as every data-URL branch does.
from_data_url(e, shape) ==
    IF e.body = "invalid" THEN PRaise(shape) ELSE PImage(ensure_png(e.body), shape)

NoProviderCall ==
    [provider |-> "none", op |-> "none", http |-> "none", resp |-> <<>>,
     result |-> PRaise(0)]

ProviderOps == {"generate", "edit"}

HttpOutcomes == {"ok", "error"}

SeqsUpTo(S) == UNION {[1..n -> S] : n \in 0..MaxItems}

\* ---- YunwuProvider
YunwuParts == {Plain("text"), Plain("inline_no_data")} \cup Data

YunwuResponses ==
    {[form |-> "no_candidates", items |-> <<>>]}
        \cup {[form |-> "candidates", items |-> ps] : ps \in SeqsUpTo(YunwuParts)}

\* The loop over parts: the first part with inline data that has a data key is
\* decoded and returned, labelled image/png.
RECURSIVE yunwu_parts(_, _)
yunwu_parts(parts, i) ==
    IF i > Len(parts) THEN PRaise(0)
    ELSE IF parts[i].t = "data"
         THEN IF parts[i].body = "invalid" THEN PRaise(i) ELSE PImage(parts[i].body, i)
         ELSE yunwu_parts(parts, i + 1)

yunwu_call(http, resp) ==
    IF http /= "ok" THEN PRaise(0)
    ELSE IF resp.form = "candidates" THEN yunwu_parts(resp.items, 1)
    ELSE PRaise(0)

\* ---- OpenRouterProvider
OpenRouterImages == {Plain("no_url")} \cup Url \cup Data

OpenRouterResponses ==
    {[form |-> f, items |-> <<>>] : f \in {"no_choices", "no_images"}}
        \cup {[form |-> "images", items |-> is] : is \in SeqsUpTo(OpenRouterImages)}

\* The loop over message.images: the first entry that is a data URL or an http URL
\* decides the call.
RECURSIVE openrouter_images(_, _)
openrouter_images(images, i) ==
    IF i > Len(images) THEN PRaise(0)
    ELSE IF images[i].t = "data" THEN from_data_url(images[i], i)
    ELSE IF images[i].t = "url" THEN from_url(images[i], i)
    ELSE openrouter_images(images, i + 1)

openrouter_call(http, resp) ==
    IF http /= "ok" THEN PRaise(0)
    ELSE IF resp.form = "images" THEN openrouter_images(resp.items, 1)
    ELSE PRaise(0)

\* ---- GPTGodProvider
\* What each of the five places of a response holds. "null" is a JSON value that is
\* no string, "text" a string that is no URL, "nonstr" a first array element that is
\* no string, "no_url" a data[0] without url.
ImageField == {Plain("absent"), Plain("null"), Plain("text")} \cup Url

ImagesField == {Plain("absent"), Plain("nonstr"), Plain("text")} \cup Url \cup Data

DataField == {Plain("absent"), Plain("no_url"), Plain("null"), Plain("text")} \cup Url

ContentLink == {Plain("absent")} \cup Url

GPTGodResponses ==
    [image : ImageField, images : ImagesField, data : DataField,
     markdown : ContentLink, bare : ContentLink]

\* Formats 4 and 5: the markdown link, then the bare URL, in choices[0] content.
gptgod_choices(r) ==
    IF r.markdown.t = "url" THEN from_url(r.markdown, 4)
    ELSE IF r.bare.t = "url" THEN from_url(r.bare, 5)
    ELSE PRaise(0)

\* Format 3: data[0].url; startswith on a value that is no string raises.
gptgod_data(r) ==
    IF r.data.t = "null" THEN PRaise(3)
    ELSE IF r.data.t = "url" THEN from_url(r.data, 3)
    ELSE gptgod_choices(r)

\* Format 2: images[0], a data URL or an http URL.
gptgod_images(r) ==
    IF r.images.t = "data" THEN from_data_url(r.images, 2)
    ELSE IF r.images.t = "url" THEN from_url(r.images, 2)
    ELSE gptgod_data(r)

\* Format 1: the image field; startswith on a value that is no string raises.
gptgod_parse(r) ==
    IF r.image.t = "null" THEN PRaise(1)
    ELSE IF r.image.t = "url" THEN from_url(r.image, 1)
    ELSE gptgod_images(r)

gptgod_call(http, resp) == IF http /= "ok" THEN PRaise(0) ELSE gptgod_parse(resp)

\* ---- the calls. A provider object keeps nothing from one call to the next, so
\* one call per behaviour covers them all.
ProviderCall(provider, op, http, resp, result) ==
    /\ pcall' = [provider |-> provider, op |-> op, http |-> http, resp |-> resp,
                 result |-> result]
    /\ UNCHANGED <<gvars, rvars, evars, uvars>>

YunwuCall ==
    /\ pcall = NoProviderCall
    /\ \E op \in ProviderOps, http \in HttpOutcomes, resp \in YunwuResponses :
          ProviderCall("yunwu", op, http, resp, yunwu_call(http, resp))

OpenRouterCall ==
    /\ pcall = NoProviderCall
    /\ \E op \in ProviderOps, http \in HttpOutcomes, resp \in OpenRouterResponses :
          ProviderCall("openrouter", op, http, resp, openrouter_call(http, resp))

GPTGodCall ==
    /\ pcall = NoProviderCall
    /\ \E op \in ProviderOps, http \in HttpOutcomes, resp \in GPTGodResponses :
          ProviderCall("gptgod", op, http, resp, gptgod_call(http, resp))

ProvidersIdle == pcall = NoProviderCall

ProvidersNext == YunwuCall \/ OpenRouterCall \/ GPTGodCall

\* ------------------------------------------------------------------ gptgod model name
\* The characters a model id is written with; "m" stands for any other character.
Chars == {"m", "-", "2", "4", "k"}

ModelIds == UNION {[1..n -> Chars] : n \in 0..MaxIdLen}

\* "gemini-3-pro-image-preview", the id used when none is configured.
DEFAULT_MODEL == <<"m">>

SUFFIX_2K == <<"-", "2", "k">>

SUFFIX_4K == <<"-", "4", "k">>

\* str.replace(pat, ""): every occurrence of pat, found from left to right without
\* overlap, is removed.
RECURSIVE replace(_, _)
replace(s, pat) ==
    IF Len(s) < Len(pat) THEN s
    ELSE IF SubSeq(s, 1, Len(pat)) = pat
         THEN replace(SubSeq(s, Len(pat) + 1, Len(s)), pat)
         ELSE <<Head(s)>> \o replace(Tail(s), pat)

\* GPTGodProvider.__init__
base_model_id(model_id) ==
    LET base_model == IF model_id = <<>> THEN DEFAULT_MODEL ELSE model_id
    IN  replace(replace(base_model, SUFFIX_2K), SUFFIX_4K)

\* GPTGodProvider._get_model_for_resolution
get_model_for_resolution(base, width, height) ==
    IF width >= 4096 \/ height >= 4096 THEN base \o SUFFIX_4K
    ELSE IF width >= 2048 \/ height >= 2048 THEN base \o SUFFIX_2K
    ELSE base

NoGPTGod == [state |-> "none", config |-> <<>>, base |-> <<>>, sent |-> <<>>,
             width |-> 0, height |-> 0]

\* ProviderFactory creates the provider from the configured model id.
GPTGodNew ==
    /\ gptgod.state = "config"
    /\ gptgod' = [gptgod EXCEPT !.state = "ready", !.base = base_model_id(gptgod.config)]
    /\ UNCHANGED <<gvars, rvars, evars, pvars, tcall, rcall, composed, svars>>

\* The model name a generate_image / edit_image call puts into its payload.
GPTGodModel(width, height) ==
    /\ gptgod.state \in {"ready", "sent"}
    /\ gptgod' = [gptgod EXCEPT !.state = "sent", !.width = width, !.height = height,
                                !.sent = get_model_for_resolution(gptgod.base, width, height)]
    /\ UNCHANGED <<gvars, rvars, evars, pvars, tcall, rcall, composed, svars>>

NamingNext ==
    \/ GPTGodNew
    \/ \E w \in Dims, h \in Dims : GPTGodModel(w, h)

\* ------------------------------------------------------------------ resolution tier
\* Widths and heights a caller passes; 0 is the default of the edit functions.
PixelDims == {0, 1024, 2047, 2048, 4096}

\* Sizes of the source image of an edit.
ImageDims == {1024, 4096}

\* YunwuProvider._determine_resolution
determine_resolution_strict(width, height) ==
    IF width > 4096 \/ height > 4096 THEN "4K"
    ELSE IF width > 2048 \/ height > 2048 THEN "2K"
    ELSE "1K"

determine_resolution(width, height) ==
    IF width >= 4096 \/ height >= 4096 THEN "4K"
    ELSE IF width >= 2048 \/ height >= 2048 THEN "2K"
    ELSE "1K"

\* OpenRouterProvider.generate_image / edit_image: resolution
openrouter_resolution(width, height) ==
    IF width >= 4096 \/ height >= 4096 THEN "4K"
    ELSE IF width >= 2048 \/ height >= 2048 THEN "2K"
    ELSE "1K"

\* The tier that the suffix chosen by _get_model_for_resolution stands for.
gptgod_resolution(width, height) ==
    LET suffix == get_model_for_resolution(<<>>, width, height)
    IN  IF suffix = SUFFIX_4K THEN "4K" ELSE IF suffix = SUFFIX_2K THEN "2K" ELSE "1K"

\* GeminiAPI._generate_with_sdk and _generate_with_rest: resolution_str
generate_resolution(width, height) ==
    IF width >= 4096 \/ height >= 4096 THEN "4K"
    ELSE IF width >= 2048 \/ height >= 2048 THEN "2K"
    ELSE "1K"

\* GeminiAPI._edit_with_sdk: resolution_str; (iw, ih) is original_image.size.
edit_sdk_resolution(width, height, iw, ih) ==
    IF width > 0 /\ height > 0
    THEN IF width >= 4096 \/ height >= 4096 THEN "4K"
         ELSE IF width >= 2048 \/ height >= 2048 THEN "2K"
         ELSE "1K"
    ELSE IF iw >= 4096 \/ ih >= 4096 THEN "4K"
         ELSE IF iw >= 2048 \/ ih >= 2048 THEN "2K"
         ELSE "1K"

\* GeminiAPI._edit_with_rest: resolution_str; the image is measured only when PIL
\* is there and can open it.
edit_rest_resolution(width, height, iw, ih, readable) ==
    IF width > 0 /\ height > 0
    THEN IF width >= 4096 \/ height >= 4096 THEN "4K"
         ELSE IF width >= 2048 \/ height >= 2048 THEN "2K"
         ELSE "1K"
    ELSE IF PIL_AVAILABLE /\ readable
         THEN IF iw >= 4096 \/ ih >= 4096 THEN "4K"
              ELSE IF iw >= 2048 \/ ih >= 2048 THEN "2K"
              ELSE "1K"
         ELSE "1K"

NoTierCall == [provider |-> "none", op |-> "none", transport |-> "none", width |-> 0,
               height |-> 0, iw |-> 0, ih |-> 0, readable |-> FALSE, tier |-> "none"]

\* The transports a provider has in this installation: the Google SDK path needs the
\* SDK and PIL, its REST path gets as far as the payload only when the REST modules
\* were imported.
Transports(provider) ==
    IF provider = "google"
    THEN (IF GENAI_AVAILABLE /\ PIL_AVAILABLE THEN {"sdk"} ELSE {})
            \cup (IF rest_modules_imported THEN {"rest"} ELSE {})
    ELSE {"rest"}

request_resolution(provider, op, transport, width, height, iw, ih, readable) ==
    CASE provider = "yunwu" -> determine_resolution(width, height)
      [] provider = "openrouter" -> openrouter_resolution(width, height)
      [] provider = "gptgod" -> gptgod_resolution(width, height)
      [] provider = "google" /\ op = "generate" -> generate_resolution(width, height)
      [] provider = "google" /\ op = "edit" /\ transport = "sdk" ->
            edit_sdk_resolution(width, height, iw, ih)
      [] OTHER -> edit_rest_resolution(width, height, iw, ih, readable)

ProviderTypes == {"google", "yunwu", "openrouter", "gptgod"}

\* A provider builds the payload of a request.
BuildRequest ==
    /\ tcall = NoTierCall
    /\ \E provider \in ProviderTypes, op \in ProviderOps, width \in PixelDims,
          height \in PixelDims, iw \in ImageDims, ih \in ImageDims, readable \in BOOLEAN :
          \E transport \in Transports(provider) :
             /\ (transport = "sdk" /\ op = "edit") => readable
             /\ tcall' = [provider |-> provider, op |-> op, transport |-> transport,
                          width |-> width, height |-> height, iw |-> iw, ih |-> ih,
                          readable |-> readable,
                          tier |-> request_resolution(provider, op, transport, width,
                                                      height, iw, ih, readable)]
    /\ UNCHANGED <<gvars, rvars, evars, pvars, gptgod, rcall, composed, svars>>

TierNext == BuildRequest

\* ------------------------------------------------------------------ floats
\* Python floats are IEEE 754 doubles: 53 significand bits, results rounded to
\* nearest, ties to even. A positive double is kept as its significand, an
\* integer of 53 bits whose top bit is set, and the exponent e of that top bit;
\* zero has its own flag. The significand is written in four limbs of 14 bits,
\* most significant first (the first limb holds 11 bits), because the integers
\* of the checker have 32 bits.
PRECISION == 53

LimbBits == 14

Limbs == 4

TopBits == PRECISION - (Limbs - 1) * LimbBits

RECURSIVE Pow2(_)
Pow2(k) == IF k = 0 THEN 1 ELSE 2 * Pow2(k - 1)

BASE == Pow2(LimbBits)

BitLength(v) == CHOOSE k \in 1..LimbBits : Pow2(k - 1) <= v /\ v < Pow2(k)

Zeros(n) == [i \in 1..n |-> 0]

\* The sequence of the limbs of f, each worked out once.
Limbwise(f) == f \o <<>>

\* x * 2^s for 0 <= s < LimbBits, when the first limb has room for s more bits.
Shl(x, s) ==
    Limbwise([i \in 1..Len(x) |->
        ((x[i] * Pow2(s)) % BASE) + (IF i < Len(x) THEN (x[i + 1] * Pow2(s)) \div BASE ELSE 0)])

\* x < y, x - y (for x >= y) and x + y for limb sequences of one length: a limb
\* borrows when the limbs below it are less in x than in y, and takes a carry
\* when a lower limb makes one and the limbs between pass it on.
LLess(x, y) == \E i \in DOMAIN x : x[i] < y[i] /\ \A j \in 1..(i - 1) : x[j] = y[j]

LSub(x, y) ==
    LET borrow(i) == \E j \in (i + 1)..Len(x) :
                        x[j] < y[j] /\ \A k \in (i + 1)..(j - 1) : x[k] = y[k]
    IN  Limbwise([i \in 1..Len(x) |-> (x[i] - y[i] - (IF borrow(i) THEN 1 ELSE 0) + BASE) % BASE])

LAdd(x, y) ==
    LET carry(i) == \E j \in (i + 1)..Len(x) :
                        x[j] + y[j] >= BASE /\ \A k \in (i + 1)..(j - 1) : x[k] + y[k] = BASE - 1
    IN  Limbwise([i \in 1..Len(x) |-> (x[i] + y[i] + (IF carry(i) THEN 1 ELSE 0)) % BASE])

FloatZero == [zero |-> TRUE, m |-> Zeros(Limbs), e |-> 0]

Float(significand, exponent) == [zero |-> FALSE, m |-> significand, e |-> exponent]

\* The next double above: the significand plus one unit in the last place.
NextUp(m, e) ==
    LET s == LAdd(m, Zeros(Limbs - 1) \o <<1>>)
    IN  IF s[1] >= Pow2(TopBits) THEN Float(<<Pow2(TopBits - 1)>> \o Zeros(Limbs - 1), e + 1)
        ELSE Float(s, e)

\* Round to nearest, ties to even: f holds the significand's limbs and one limb
\* more of the exact value; sticky tells that the exact value goes on below it.
RoundFrame(f, e, sticky) ==
    LET head == SubSeq(f, 1, Limbs)
        guard == f[Limbs + 1]
        half == guard >= BASE \div 2
        more == sticky \/ guard % (BASE \div 2) /= 0
    IN  IF half /\ (more \/ head[Limbs] % 2 = 1) THEN NextUp(head, e) ELSE Float(head, e)

\* The double nearest to x * 2^e for a natural number x given by its limbs.
RoundNat(x, e, sticky) ==
    IF \A i \in DOMAIN x : x[i] = 0 THEN FloatZero
    ELSE LET first == CHOOSE i \in DOMAIN x : x[i] /= 0 /\ \A j \in 1..(i - 1) : x[j] = 0
             width == BitLength(x[first])
             rest == SubSeq(x, first, Len(x)) \o Zeros(Limbs + 1)
             shifted == IF width <= TopBits THEN Shl(rest, TopBits - width)
                        ELSE Shl(<<0>> \o rest, TopBits + LimbBits - width)
         IN  RoundFrame(SubSeq(shifted, 1, Limbs + 1),
                        e + (Len(x) - first) * LimbBits + width - 1,
                        sticky \/ \E i \in (Limbs + 2)..Len(shifted) : shifted[i] /= 0)

\* The double of a small natural number.
IntFloat(n) == RoundNat(<<n>>, 0, FALSE)

\* n / d for small positive integers: long division, a limb at a time.
RECURSIVE QuotLimbs(_, _, _)
QuotLimbs(r, d, k) ==
    IF k = 0 THEN [limbs |-> <<>>, r |-> r]
    ELSE LET rest == QuotLimbs((r * BASE) % d, d, k - 1)
         IN  [limbs |-> <<(r * BASE) \div d>> \o rest.limbs, r |-> rest.r]

RECURSIVE DivNormal(_, _, _)
DivNormal(n, d, e) ==
    IF n < d THEN DivNormal(2 * n, d, e - 1)
    ELSE IF n >= 2 * d THEN DivNormal(n, 2 * d, e + 1)
    ELSE LET top == Pow2(TopBits - 1)
             q == QuotLimbs(((n - d) * top) % d, d, Limbs)
         IN  RoundFrame(<<top + ((n - d) * top) \div d>> \o q.limbs, e, q.r /= 0)

IntDiv(n, d) == DivNormal(n, d, 0)

\* n * x for a small natural n and a positive double x.
FloatMul(n, x) ==
    LET lo == [i \in 1..Limbs |-> (x.m[i] * n) % BASE]
        hi == [i \in 1..Limbs |-> (x.m[i] * n) \div BASE]
    IN  RoundNat(LAdd(<<0>> \o lo, hi \o <<0>>), x.e - (PRECISION - 1), FALSE)

\* n / x for a small natural n and a positive double x: long division of the
\* significands, a bit at a time; q collects the next k bits of the quotient.
RECURSIVE QuotDigit(_, _, _)
QuotDigit(r, d, k) ==
    IF k = 1 THEN LET r2 == Shl(r, 1)
                  IN  IF LLess(r2, d) THEN [q |-> 0, r |-> r2] ELSE [q |-> 1, r |-> LSub(r2, d)]
    ELSE LET first == QuotDigit(r, d, k \div 2)
             second == QuotDigit(first.r, d, k - k \div 2)
         IN  [q |-> first.q * Pow2(k - k \div 2) + second.q, r |-> second.r]

RECURSIVE BigQuotLimbs(_, _, _)
BigQuotLimbs(r, d, k) ==
    IF k = 0 THEN [limbs |-> <<>>, r |-> r]
    ELSE LET digit == QuotDigit(r, d, LimbBits)
             rest == BigQuotLimbs(digit.r, d, k - 1)
         IN  [limbs |-> <<digit.q>> \o rest.limbs, r |-> rest.r]

FloatDiv(n, x) ==
    LET a == IntFloat(n).m
        low == LLess(a, x.m)
        top == QuotDigit(LSub(IF low THEN Shl(a, 1) ELSE a, x.m), x.m, TopBits - 1)
        q == BigQuotLimbs(top.r, x.m, Limbs)
    IN  IF n = 0 THEN FloatZero
        ELSE RoundFrame(<<Pow2(TopBits - 1) + top.q>> \o q.limbs,
                        BitLength(n) - 1 - x.e - (IF low THEN 1 ELSE 0),
                        \E i \in DOMAIN q.r : q.r[i] /= 0)

\* x < y for doubles that are not negative.
FloatLess(x, y) ==
    IF y.zero THEN FALSE
    ELSE IF x.zero THEN TRUE
    ELSE IF x.e /= y.e THEN x.e < y.e
    ELSE LLess(x.m, y.m)

\* abs(x - y) for positive doubles.
FloatAbsDiff(x, y) ==
    LET hi == IF FloatLess(x, y) THEN y ELSE x
        lo == IF FloatLess(x, y) THEN x ELSE y
        shift == hi.e - lo.e
        a == Shl(<<0>> \o hi.m \o Zeros(shift \div LimbBits), shift % LimbBits)
        b == Zeros(Len(a) - Limbs) \o lo.m
    IN  RoundNat(LSub(a, b), lo.e - (PRECISION - 1), FALSE)

\* round(x) of Python for a double that is not negative and less than 2^24:
\* the nearest integer, the even one when x lies half way.
round(x) ==
    IF x.zero \/ x.e < -1 THEN 0
    ELSE LET places == (TopBits + LimbBits - 1) - x.e
             lead == x.m[1] * BASE + x.m[2]
             whole == lead \div Pow2(places)
             frac == lead % Pow2(places)
             more == x.m[3] /= 0 \/ x.m[4] /= 0
         IN  IF \/ frac > Pow2(places - 1)
                \/ frac = Pow2(places - 1) /\ (more \/ whole % 2 = 1)
             THEN whole + 1 ELSE whole

\* ------------------------------------------------------------------ aspect_ratio_utils.py
SUPPORTED_RATIOS == <<"1:1", "2:3", "3:2", "3:4", "4:3", "4:5", "5:4", "9:16", "16:9", "21:9">>

parse_ratio(ratio_str) ==
    CASE ratio_str = "1:1" -> <<1, 1>>
      [] ratio_str = "2:3" -> <<2, 3>>
      [] ratio_str = "3:2" -> <<3, 2>>
      [] ratio_str = "3:4" -> <<3, 4>>
      [] ratio_str = "4:3" -> <<4, 3>>
      [] ratio_str = "4:5" -> <<4, 5>>
      [] ratio_str = "5:4" -> <<5, 4>>
      [] ratio_str = "9:16" -> <<9, 16>>
      [] ratio_str = "16:9" -> <<16, 9>>
      [] ratio_str = "21:9" -> <<21, 9>>

ratio_to_float(ratio_str) == IntDiv(parse_ratio(ratio_str)[1], parse_ratio(ratio_str)[2])

NoDiff == [inf |-> TRUE, value |-> FloatZero]

RECURSIVE closest_from(_, _, _, _)
closest_from(i, current_ratio, closest_ratio, min_diff) ==
    IF i > Len(SUPPORTED_RATIOS) THEN closest_ratio
    ELSE LET ratio_str == SUPPORTED_RATIOS[i]
             ratio_value == ratio_to_float(ratio_str)
             diff == FloatAbsDiff(current_ratio, ratio_value)
         IN  IF min_diff.inf \/ FloatLess(diff, min_diff.value)
             THEN closest_from(i + 1, current_ratio, ratio_str, [inf |-> FALSE, value |-> diff])
             ELSE closest_from(i + 1, current_ratio, closest_ratio, min_diff)

find_closest_ratio(width, height) ==
    IF width <= 0 \/ height <= 0 THEN "1:1"
    ELSE closest_from(1, IntDiv(width, height), "1:1", NoDiff)

adjust_resolution_inverted(width, height, target_ratio) ==
    LET target_ratio_float == ratio_to_float(target_ratio)
    IN  IF width >= height
        THEN <<width, round(FloatMul(width, target_ratio_float))>>
        ELSE <<round(FloatDiv(height, target_ratio_float)), height>>

adjust_resolution_to_ratio(width, height, target_ratio) ==
    LET target_ratio_float == ratio_to_float(target_ratio)
    IN  IF width >= height
        THEN <<width, round(FloatDiv(width, target_ratio_float))>>
        ELSE <<round(FloatMul(height, target_ratio_float)), height>>

\* One call of aspect_ratio_utils per behaviour: find_closest_ratio on a size, or
\* adjust_resolution_to_ratio on a size and a supported ratio, whose result a
\* caller then hands to find_closest_ratio.
SmallSides == 1..MaxSide

RenderSides == {1024, 1080, 1920, 2048, 4096}

Sides == SmallSides \cup RenderSides

NoRatioCall == [op |-> "none", width |-> 0, height |-> 0, target_ratio |-> "none",
                new_width |-> 0, new_height |-> 0, closest_ratio |-> "none"]

FindClosestRatio ==
    /\ rcall.op = "none"
    /\ \E width \in Sides \cup {-1, 0}, height \in Sides \cup {-1, 0} :
          rcall' = [NoRatioCall EXCEPT !.op = "find", !.width = width, !.height = height,
                                       !.closest_ratio = find_closest_ratio(width, height)]
    /\ UNCHANGED <<gvars, rvars, evars, pvars, gptgod, tcall, composed, svars>>

AdjustResolution ==
    /\ rcall.op = "none"
    /\ \E width \in Sides, height \in Sides, i \in DOMAIN SUPPORTED_RATIOS :
          LET new == adjust_resolution_to_ratio(width, height, SUPPORTED_RATIOS[i])
          IN  rcall' = [NoRatioCall EXCEPT !.op = "adjust", !.width = width, !.height = height,
                                           !.target_ratio = SUPPORTED_RATIOS[i],
                                           !.new_width = new[1], !.new_height = new[2]]
    /\ UNCHANGED <<gvars, rvars, evars, pvars, gptgod, tcall, composed, svars>>

FindAdjusted ==
    /\ rcall.op = "adjust"
    /\ rcall' = [rcall EXCEPT !.op = "adjusted",
                              !.closest_ratio = find_closest_ratio(rcall.new_width, rcall.new_height)]
    /\ UNCHANGED <<gvars, rvars, evars, pvars, gptgod, tcall, composed, svars>>

RatioNext == FindClosestRatio \/ AdjustResolution \/ FindAdjusted

\* ------------------------------------------------------------------ prompts
\* A text is a sequence of characters. The fixed wording of a template is kept as
\* one item that names it, followed by the line break it ends with; the marker
\* that asks for the finalize template is kept as one item too.
FINALIZE_COMPOSITE == <<"[FINALIZE_COMPOSITE]">>

TextChars == {"a", " ", "\n", "[FINALIZE_COMPOSITE]"}

Whitespace == {" ", "\n"}

UserTexts == UNION {[1..n -> TextChars] : n \in 0..MaxTextLen}

RECURSIVE lstrip(_)
lstrip(s) == IF s /= <<>> /\ Head(s) \in Whitespace THEN lstrip(Tail(s)) ELSE s

RECURSIVE rstrip(_)
rstrip(s) ==
    IF s /= <<>> /\ s[Len(s)] \in Whitespace THEN rstrip(SubSeq(s, 1, Len(s) - 1)) ELSE s

strip(s) == rstrip(lstrip(s))

build_prompt(user_prompt, has_reference, is_color_render) ==
    LET base_prompt ==
            IF ~is_color_render
            THEN (IF has_reference THEN <<"depth map with style reference", "\n">>
                  ELSE <<"depth map", "\n">>)
            ELSE (IF has_reference THEN <<"color render with style reference", "\n">>
                  ELSE <<"color render", "\n">>)
    IN  IF strip(user_prompt) /= <<>>
        THEN base_prompt \o <<"\n", "\n", "USER PROMPT (EXECUTE THIS):", " ">> \o strip(user_prompt)
        ELSE base_prompt

build_edit_prompt(user_prompt, has_mask, has_reference) ==
    LET base_prompt ==
            IF has_mask /\ has_reference
            THEN <<"read user's prompt first", "\n", "\"">> \o user_prompt
                    \o <<"\"", "\n", "place reference object at sketch", "\n", "\n">>
            ELSE IF has_mask THEN <<"inpainting", "\n">>
            ELSE IF has_reference THEN <<"object integration", "\n">>
            ELSE <<"refine", "\n">>
    IN  IF user_prompt = FINALIZE_COMPOSITE THEN <<"composite finalization", "\n">>
        ELSE IF strip(user_prompt) /= <<>>
        THEN base_prompt \o <<"\n", "\n", "USER'S EDIT INSTRUCTIONS:", "\n">> \o strip(user_prompt)
        ELSE base_prompt

NoPrompt == [fn |-> "none", user_prompt |-> <<>>, has_reference |-> FALSE,
             is_color_render |-> FALSE, has_mask |-> FALSE, full_prompt |-> <<>>]

BuildPrompt ==
    /\ composed = NoPrompt
    /\ \E user_prompt \in UserTexts, has_reference \in BOOLEAN, is_color_render \in BOOLEAN :
          composed' = [NoPrompt EXCEPT
                          !.fn = "generate", !.user_prompt = user_prompt,
                          !.has_reference = has_reference, !.is_color_render = is_color_render,
                          !.full_prompt = build_prompt(user_prompt, has_reference, is_color_render)]
    /\ UNCHANGED <<gvars, rvars, evars, pvars, gptgod, tcall, rcall, svars>>

BuildEditPrompt ==
    /\ composed = NoPrompt
    /\ \E user_prompt \in UserTexts, has_mask \in BOOLEAN, has_reference \in BOOLEAN :
          composed' = [NoPrompt EXCEPT
                          !.fn = "edit", !.user_prompt = user_prompt,
                          !.has_mask = has_mask, !.has_reference = has_reference,
                          !.full_prompt = build_edit_prompt(user_prompt, has_mask, has_reference)]
    /\ UNCHANGED <<gvars, rvars, evars, pvars, gptgod, tcall, rcall, svars>>

PromptNext == BuildPrompt \/ BuildEditPrompt

\* ------------------------------------------------------------------ request parts
\* An image argument by what its file is: no path given ("absent"), a readable
\* image, readable bytes that are no image, a file of length 0, a path that cannot
\* be opened.
Files == {"absent", "image", "garbage", "empty", "missing"}

PrimaryFiles == Files \ {"absent"}

\* PIL's Image.open succeeds.
pil_opens(file) == file = "image"

\* open(path, "rb").read() succeeds.
reads(file) == file \in {"image", "garbage", "empty"}

\* base64.b64encode(...).decode(): the empty string for a file of length 0.
b64_nonempty(file) == file \in {"image", "garbage"}

NoParts == [sent |-> FALSE, parts |-> <<>>]

Parts(seq) == [sent |-> TRUE, parts |-> seq]

\* _generate_with_sdk: contents. A reference that does not load is left out.
generate_sdk_contents(depth, reference) ==
    IF ~pil_opens(depth) THEN NoParts
    ELSE Parts(<<"prompt", "depth">>
               \o IF reference /= "absent" /\ pil_opens(reference)
                  THEN <<"reference">> ELSE <<>>)

\* _generate_with_rest: parts. reference_base64 stays None when the file cannot be
\* read, and "if reference_base64" is false for the empty string too.
generate_rest_parts(depth, reference) ==
    IF ~reads(depth) THEN NoParts
    ELSE Parts(<<"prompt", "depth">>
               \o IF reference /= "absent" /\ reads(reference) /\ b64_nonempty(reference)
                  THEN <<"reference">> ELSE <<>>)

\* _edit_with_sdk: contents. Every Image.open is outside a try of its own.
edit_sdk_contents(source, reference, mask) ==
    IF \/ ~pil_opens(source)
       \/ reference /= "absent" /\ ~pil_opens(reference)
       \/ mask /= "absent" /\ ~pil_opens(mask)
    THEN NoParts
    ELSE Parts(<<"prompt">>
               \o (IF reference /= "absent" THEN <<"reference">> ELSE <<>>)
               \o <<"source">>
               \o (IF mask /= "absent" THEN <<"mask">> ELSE <<>>))

\* _edit_with_rest: parts.
edit_rest_parts(source, reference, mask) ==
    IF \/ ~reads(source)
       \/ reference /= "absent" /\ ~reads(reference)
       \/ mask /= "absent" /\ ~reads(mask)
    THEN NoParts
    ELSE Parts(<<"prompt">>
               \o (IF reference /= "absent" THEN <<"reference">> ELSE <<>>)
               \o <<"source">>
               \o (IF mask /= "absent" THEN <<"mask">> ELSE <<>>))

\* YunwuProvider.generate_image: parts; _encode_image raises for an unreadable file.
yunwu_generate_parts(depth, reference) ==
    IF ~reads(depth) \/ (reference /= "absent" /\ ~reads(reference)) THEN NoParts
    ELSE Parts(<<"prompt", "depth">>
               \o IF reference /= "absent" THEN <<"reference">> ELSE <<>>)

\* Mutant of the order of YunwuProvider.edit_image: the mask before the reference.
yunwu_edit_mask_first(source, reference, mask) ==
    IF \/ ~reads(source)
       \/ reference /= "absent" /\ ~reads(reference)
       \/ mask /= "absent" /\ ~reads(mask)
    THEN NoParts
    ELSE Parts(<<"prompt", "source">>
               \o (IF mask /= "absent" THEN <<"mask">> ELSE <<>>)
               \o (IF reference /= "absent" THEN <<"reference">> ELSE <<>>))

\* YunwuProvider.edit_image: parts.
yunwu_edit_parts(source, reference, mask) ==
    IF \/ ~reads(source)
       \/ reference /= "absent" /\ ~reads(reference)
       \/ mask /= "absent" /\ ~reads(mask)
    THEN NoParts
    ELSE Parts(<<"prompt", "source">>
               \o (IF reference /= "absent" THEN <<"reference">> ELSE <<>>)
               \o (IF mask /= "absent" THEN <<"mask">> ELSE <<>>))

NoRequest ==
    [provider |-> "none", op |-> "none", transport |-> "none", primary |-> "absent",
     reference |-> "absent", mask |-> "absent", has_reference |-> FALSE,
     has_mask |-> FALSE, body |-> NoParts]

PartsFrame ==
    UNCHANGED <<gvars, rvars, evars, pvars, gptgod, tcall, rcall, composed, cvars,
                hvars, mvars>>

\* The request of a generate call is built: google on either transport, or yunwu.
\* The prompt template is chosen with has_reference = bool(reference_image_path).
BuildGenerateParts(provider, transport, depth, reference) ==
    /\ provider = "yunwu" => transport = "rest"
    /\ request' =
         [provider |-> provider, op |-> "generate", transport |-> transport,
          primary |-> depth, reference |-> reference, mask |-> "absent",
          has_reference |-> reference /= "absent", has_mask |-> FALSE,
          body |-> IF provider = "yunwu" THEN yunwu_generate_parts(depth, reference)
                   ELSE IF transport = "sdk" THEN generate_sdk_contents(depth, reference)
                   ELSE generate_rest_parts(depth, reference)]
    /\ PartsFrame

\* The request of an edit call is built. edit_image chooses the template with
\* has_mask = bool(mask_path) and has_reference = bool(reference_image_path).
BuildEditParts(provider, transport, source, reference, mask) ==
    /\ provider = "yunwu" => transport = "rest"
    /\ request' =
         [provider |-> provider, op |-> "edit", transport |-> transport,
          primary |-> source, reference |-> reference, mask |-> mask,
          has_reference |-> reference /= "absent", has_mask |-> mask /= "absent",
          body |-> IF provider = "yunwu" THEN yunwu_edit_parts(source, reference, mask)
                   ELSE IF transport = "sdk"
                   THEN edit_sdk_contents(source, reference, mask)
                   ELSE edit_rest_parts(source, reference, mask)]
    /\ PartsFrame

PartsNext ==
    \/ \E provider \in {"google", "yunwu"}, transport \in {"sdk", "rest"},
          depth \in PrimaryFiles, reference \in Files :
          BuildGenerateParts(provider, transport, depth, reference)
    \/ \E provider \in {"google", "yunwu"}, transport \in {"sdk", "rest"},
          source \in PrimaryFiles, reference \in Files, mask \in Files :
          BuildEditParts(provider, transport, source, reference, mask)

\* ------------------------------------------------------------------ provider store
\* Python's None as an argument of update_provider.
None == "None"

\* ProviderManager._get_provider_name.
get_provider_name(provider_type) ==
    CASE provider_type = "google" -> "Google Gemini"
      [] provider_type = "yunwu" -> "Yunwu Gemini"
      [] provider_type = "gptgod" -> "GPTGod"
      [] provider_type = "openrouter" -> "OpenRouter"
      [] OTHER -> provider_type

\* ProviderManager.get_provider_by_type: the position of the first entry of the
\* type, 0 for None.
get_provider_by_type(store, provider_type) ==
    LET found == {i \in 1..Len(store) : store[i].type = provider_type}
    IN IF found = {} THEN 0 ELSE CHOOSE i \in found : \A j \in found : i <= j

\* A store that adds an entry on every update, whether the type is there or not.
update_provider_append(store, provider_type, api_key, base_url, model) ==
    Append(store,
           [name |-> get_provider_name(provider_type), type |-> provider_type,
            apiKey |-> api_key,
            baseUrl |-> IF base_url /= None THEN base_url ELSE "",
            model |-> IF model /= None THEN model ELSE ""])

\* ProviderManager.update_provider: self.providers after the call.
update_provider(store, provider_type, api_key, base_url, model) ==
    LET i == get_provider_by_type(store, provider_type)
    IN IF i /= 0
       THEN [store EXCEPT ![i] =
               [@ EXCEPT !.apiKey = api_key,
                         !.baseUrl = IF base_url /= None THEN base_url ELSE @,
                         !.model = IF model /= None THEN model ELSE @]]
       ELSE Append(store,
                   [name |-> get_provider_name(provider_type), type |-> provider_type,
                    apiKey |-> api_key,
                    baseUrl |-> IF base_url /= None THEN base_url ELSE "",
                    model |-> IF model /= None THEN model ELSE ""])

NoUpdate == [type |-> "none", api_key |-> "", base_url |-> None, model |-> None]

\* What the property callbacks work on: the store, the add-on preferences and the
\* record of the last update_provider call.
Config(store, preferences, call) ==
    [providers |-> store, preferences |-> preferences, updated |-> call]

\* manager.update_provider(...) as the callbacks call it.
Updated(c, provider_type, api_key, base_url, model) ==
    [c EXCEPT !.providers = update_provider(@, provider_type, api_key, base_url, model),
              !.updated = [type |-> provider_type, api_key |-> api_key,
                           base_url |-> base_url, model |-> model]]

\* ui_panel.sync_api_key, the update callback of props.api_key. loading is
\* hasattr(self, "_loading_provider_config") and self._loading_provider_config.
sync_api_key(c, p, loading) ==
    IF loading THEN c
    ELSE LET u == Updated(c, p.provider_type, p.api_key, None, None)
         IN IF p.api_key /= "" /\ p.api_key /= c.preferences
            THEN [u EXCEPT !.preferences = p.api_key]
            ELSE u

\* A Base URL callback that saves whether or not a provider is being loaded.
sync_provider_base_url_always(c, p, loading) ==
    Updated(c, p.provider_type, p.api_key, p.provider_base_url, None)

\* ui_panel.sync_provider_base_url, the update callback of props.provider_base_url.
sync_provider_base_url(c, p, loading) ==
    IF loading THEN c
    ELSE Updated(c, p.provider_type, p.api_key, p.provider_base_url, None)

\* ui_panel.sync_provider_model_id, the update callback of props.provider_model_id.
sync_provider_model_id(c, p, loading) ==
    IF loading THEN c
    ELSE Updated(c, p.provider_type, p.api_key, None, p.provider_model_id)

\* default_presets of on_provider_change.
default_presets(provider_type) ==
    CASE provider_type = "google" ->
           [base_url |-> "https://generativelanguage.googleapis.com",
            model_id |-> "gemini-3-pro-image-preview"]
      [] provider_type = "yunwu" ->
           [base_url |-> "https://yunwu.zeabur.app",
            model_id |-> "gemini-3-pro-image-preview"]
      [] provider_type = "openrouter" ->
           [base_url |-> "https://openrouter.ai/api/v1/chat/completions",
            model_id |-> "google/gemini-3-pro-image-preview"]
      [] provider_type = "gptgod" ->
           [base_url |-> "https://api.gptgod.online/v1/chat/completions",
            model_id |-> "gemini-3-pro-image-preview"]

\* ui_panel.on_provider_change up to the three property writes: the flag is set,
\* the values are taken from the saved entry or the preset, and every write runs
\* its update callback on the same properties object.
on_provider_change(c, p) ==
    LET i == get_provider_by_type(c.providers, p.provider_type)
        preset == default_presets(p.provider_type)
        key == IF i /= 0 THEN c.providers[i].apiKey ELSE ""
        url == IF i /= 0 /\ c.providers[i].baseUrl /= ""
               THEN c.providers[i].baseUrl ELSE preset.base_url
        mod == IF i /= 0 /\ c.providers[i].model /= ""
               THEN c.providers[i].model ELSE preset.model_id
        p1 == [p EXCEPT !.api_key = key]
        c1 == sync_api_key(c, p1, TRUE)
        p2 == [p1 EXCEPT !.provider_base_url = url]
        c2 == sync_provider_base_url(c1, p2, TRUE)
        p3 == [p2 EXCEPT !.provider_model_id = mod]
        c3 == sync_provider_model_id(c2, p3, TRUE)
    IN [props |-> p3, config |-> c3]

StoreFrame ==
    UNCHANGED <<gvars, rvars, evars, pvars, gptgod, tcall, rcall, composed, ovars,
                hvars, mvars>>

CurrentConfig == Config(providers, preferences_api_key, updated)

Loading == loading_provider_config = "True"

\* The outcome of a property write made outside on_provider_change.
Synced(c, p) ==
    /\ props' = p
    /\ providers' = c.providers
    /\ preferences_api_key' = c.preferences
    /\ updated' = c.updated
    /\ UNCHANGED <<selected_provider, loading_provider_config>>
    /\ StoreFrame

\* The user types an API key.
SetApiKey(key) ==
    LET p == [props EXCEPT !.api_key = key]
    IN Synced(sync_api_key(CurrentConfig, p, Loading), p)

\* The user types a Base URL.
SetBaseUrl(url) ==
    LET p == [props EXCEPT !.provider_base_url = url]
    IN Synced(sync_provider_base_url(CurrentConfig, p, Loading), p)

\* The user types a model id.
SetModelId(model) ==
    LET p == [props EXCEPT !.provider_model_id = model]
    IN Synced(sync_provider_model_id(CurrentConfig, p, Loading), p)

\* on_provider_change runs for the provider type the properties hold now;
\* saved: save_selected_provider wrote settings.json (it swallows a failure).
ProviderChanged(p, saved) ==
    LET r == on_provider_change(CurrentConfig, p)
    IN /\ props' = r.props
       /\ providers' = r.config.providers
       /\ preferences_api_key' = r.config.preferences
       /\ updated' = r.config.updated
       /\ selected_provider' = IF saved THEN p.provider_type ELSE selected_provider
       /\ loading_provider_config' = "False"
       /\ StoreFrame

\* The user picks a provider: the write of props.provider_type runs on_provider_change.
SetProviderType(provider_type, saved) ==
    ProviderChanged([props EXCEPT !.provider_type = provider_type], saved)

\* __init__.init_provider_from_settings, run by a timer after a file was loaded.
init_provider_from_settings(saved) ==
    IF selected_provider \in ProviderTypes /\ props.provider_type /= selected_provider
    THEN SetProviderType(selected_provider, saved)
    ELSE ProviderChanged(props, saved)

ApiKeys == {"", "key"}
BaseUrls == {"", "custom"}
Models == {"", "custom"}
SwitchableTypes == {"google", "openrouter"}

StoreNext ==
    \/ \E key \in ApiKeys : SetApiKey(key)
    \/ \E url \in BaseUrls : SetBaseUrl(url)
    \/ \E model \in Models : SetModelId(model)
    \/ \E provider_type \in SwitchableTypes, saved \in BOOLEAN :
          SetProviderType(provider_type, saved)
    \/ \E saved \in BOOLEAN : init_provider_from_settings(saved)

StoreIdle ==
    /\ providers = <<>>
    /\ selected_provider = ""
    /\ props = [provider_type |-> "google", api_key |-> "", provider_base_url |-> "",
                provider_model_id |-> ""]
    /\ loading_provider_config = "unset"
    /\ preferences_api_key = ""
    /\ updated = NoUpdate

\* ------------------------------------------------------------------ render history
\* "Keep only last 10 renders" in load_result_image.
HISTORY_LIMIT == 10

\* Names of images: the one the workers load under, the display copy, and the
\* permanent image of a history entry, "AI_Result_<time>", which the host keeps
\* unique; n tells the permanent names apart.
ResultName == <<"Gemini_AI_Result">>
RenderResultName == <<"Render Result">>
permanent_name(n) == <<"AI_Result", n>>

HistoryState(history, imgs) == [render_history |-> history, images |-> imgs]

\* A loop that drops the entry added last while the history is too long.
RECURSIVE trim_history_newest(_)
trim_history_newest(h) ==
    IF Len(h.render_history) > HISTORY_LIMIT
    THEN trim_history_newest(
           HistoryState(SubSeq(h.render_history, 1, Len(h.render_history) - 1),
                        h.images \ {h.render_history[Len(h.render_history)].image_name}))
    ELSE h

\* The while loop of load_result_image: the entry at index 0 and its image are
\* removed until at most HISTORY_LIMIT entries are left.
RECURSIVE trim_history(_)
trim_history(h) ==
    IF Len(h.render_history) > HISTORY_LIMIT
    THEN trim_history(HistoryState(Tail(h.render_history),
                                   h.images \ {Head(h.render_history).image_name}))
    ELSE h

\* _load_image of load_result_image(image_data, "Gemini_AI_Result", user_prompt);
\* has_loaded: bpy.data.images.load read the image data, otherwise the outer except
\* clause ends the callback after the old result image was removed.
load_image(h, user_prompt, has_loaded, n) ==
    LET removed == h.images \ {ResultName}
        img == IF user_prompt /= "" THEN permanent_name(n) ELSE ResultName
        shown == removed \cup {img, RenderResultName}
    IN IF ~has_loaded THEN HistoryState(h.render_history, removed)
       ELSE IF user_prompt = "" THEN HistoryState(h.render_history, shown)
       ELSE trim_history(
              HistoryState(Append(h.render_history,
                                  [prompt |-> user_prompt, image_name |-> img]),
                           shown))

HistoryFrame ==
    UNCHANGED <<gvars, rvars, evars, pvars, gptgod, tcall, rcall, composed, ovars,
                cvars, mvars>>

\* The main thread runs a _load_image callback.
LoadResult(user_prompt, has_loaded) ==
    LET named == user_prompt /= "" /\ has_loaded
        h == load_image(HistoryState(render_history, data_images), user_prompt,
                        has_loaded, nloads + 1)
    IN /\ named => nloads < MaxLoads
       /\ render_history' = h.render_history
       /\ data_images' = h.images
       /\ nloads' = IF named THEN nloads + 1 ELSE nloads
       /\ HistoryFrame

\* GEMINI_OT_delete_history_item.execute: the entry and its image are removed.
DeleteHistoryItem(history_index) ==
    /\ history_index >= 0
    /\ history_index < Len(render_history)
    /\ data_images' = data_images \ {render_history[history_index + 1].image_name}
    /\ render_history' =
         SubSeq(render_history, 1, history_index)
         \o SubSeq(render_history, history_index + 2, Len(render_history))
    /\ UNCHANGED nloads
    /\ HistoryFrame

UserPrompts == {"", "photorealistic"}

HistoryNext ==
    \/ \E user_prompt \in UserPrompts, has_loaded \in BOOLEAN :
          LoadResult(user_prompt, has_loaded)
    \/ \E history_index \in 0..(HISTORY_LIMIT - 1) : DeleteHistoryItem(history_index)

HistoryIdle ==
    /\ render_history = <<>>
    /\ data_images = {}
    /\ nloads = 0

\* ------------------------------------------------------------------ thread manager
\* The func a thread hands over with its n-th execute_in_main_thread call;
\* after: how many stop_timer calls had returned when it was put.
Command(t, n, after) == [w |-> t, f |-> "command", n |-> n, after |-> after]

ManagerFrame ==
    /\ UNCHANGED <<is_rendering, status_text, current_thread, kind, pc, stop_event,
                   render_result, outcome, main, netcalls, loaded, reported, cleared,
                   stop_pc, host_writes>>
    /\ UNCHANGED <<gvars, evars, pvars, gptgod, tcall, rcall, composed, ovars, cvars,
                   hvars>>

\* execute_in_main_thread, first statement: self.command_queue.put(...).
Put(t) ==
    /\ caller_pc[t] = "idle"
    /\ Len(enqueued[t]) < MaxCommands
    /\ LET cb == Command(t, Len(enqueued[t]) + 1, stops)
       IN /\ command_queue' = execute_in_main_thread(command_queue, cb)
          /\ enqueued' = [enqueued EXCEPT ![t] = Append(@, cb)]
    /\ caller_pc' = [caller_pc EXCEPT ![t] = "put"]
    /\ UNCHANGED <<executed, timer_registered, process_queue_timers, stops>>
    /\ ManagerFrame

\* execute_in_main_thread: "if not self.timer_registered" is read.
CheckRegistered(t) ==
    /\ caller_pc[t] = "put"
    /\ caller_pc' = [caller_pc EXCEPT ![t] = IF timer_registered THEN "idle"
                                             ELSE "checked"]
    /\ UNCHANGED <<command_queue, enqueued, executed, timer_registered,
                   process_queue_timers, stops>>
    /\ ManagerFrame

\* execute_in_main_thread: bpy.app.timers.register(self._process_queue, ...).
Register(t) ==
    /\ caller_pc[t] = "checked"
    /\ process_queue_timers' = process_queue_timers + 1
    /\ caller_pc' = [caller_pc EXCEPT ![t] = "registered"]
    /\ UNCHANGED <<command_queue, enqueued, executed, timer_registered, stops>>
    /\ ManagerFrame

\* execute_in_main_thread: self.timer_registered = True.
SetRegistered(t) ==
    /\ caller_pc[t] = "registered"
    /\ timer_registered' = TRUE
    /\ caller_pc' = [caller_pc EXCEPT ![t] = "idle"]
    /\ UNCHANGED <<command_queue, enqueued, executed, process_queue_timers, stops>>
    /\ ManagerFrame

\* The commands of a queue appended, in order, to the lists of what has run.
RECURSIVE run_all(_, _)
run_all(queue, done) ==
    IF queue = <<>> THEN done
    ELSE run_all(Tail(queue),
                 [done EXCEPT ![Head(queue).w] =
                    Append(@, [cb |-> Head(queue), raised |-> FALSE])])

\* _process_queue, run by the host for a registered timer: every command in the
\* queue is called, and the return value 0.1 keeps the timer registered.
ProcessQueueTimer ==
    /\ process_queue_timers > 0
    /\ command_queue /= <<>>
    /\ executed' = run_all(command_queue, executed)
    /\ command_queue' = <<>>
    /\ UNCHANGED <<enqueued, timer_registered, process_queue_timers, caller_pc, stops>>
    /\ ManagerFrame

\* BlenderThreadManager.stop_timer, called on the main thread when the add-on is
\* unregistered; unregistered: bpy.app.timers.unregister removed a timer, otherwise
\* it raised, which the bare except clause swallows.
stop_timer(unregistered) ==
    /\ stops < MaxStops
    /\ IF timer_registered
       THEN /\ process_queue_timers' = IF unregistered /\ process_queue_timers > 0
                                       THEN process_queue_timers - 1
                                       ELSE process_queue_timers
            /\ timer_registered' = FALSE
       ELSE UNCHANGED <<process_queue_timers, timer_registered>>
    /\ stops' = stops + 1
    /\ UNCHANGED <<command_queue, enqueued, executed, caller_pc>>
    /\ ManagerFrame

ManagerNext ==
    \/ \E t \in Workers : Put(t)
    \/ \E t \in Workers : CheckRegistered(t)
    \/ \E t \in Workers : Register(t)
    \/ \E t \in Workers : SetRegistered(t)
    \/ ProcessQueueTimer
    \/ \E unregistered \in BOOLEAN : stop_timer(unregistered)

ManagerIdle ==
    /\ timer_registered = FALSE
    /\ process_queue_timers = 0
    /\ caller_pc = [t \in Workers |-> "idle"]
    /\ stops = 0

\* ------------------------------------------------------------------ specification
RequestIdle == request = NoRequest

SessionIdle == RequestIdle /\ StoreIdle /\ HistoryIdle /\ ManagerIdle

UtilIdle ==
    /\ gptgod = NoGPTGod /\ tcall = NoTierCall /\ rcall = NoRatioCall
    /\ composed = NoPrompt
    /\ SessionIdle

GoogleIdle ==
    /\ GENAI_AVAILABLE = TRUE
    /\ PIL_AVAILABLE = TRUE
    /\ client = "none"
    /\ use_sdk = FALSE
    /\ ncalls = 0
    /\ last = NoCall

RenderInit ==
    /\ is_rendering = FALSE
    /\ status_text = "ready"
    /\ current_thread = NoThread
    /\ kind = [w \in Workers |-> "none"]
    /\ pc = [w \in Workers |-> "unborn"]
    /\ stop_event = [w \in Workers |-> FALSE]
    /\ render_result = [w \in Workers |-> "None"]
    /\ outcome = [w \in Workers |-> "none"]
    /\ command_queue = <<>>
    /\ main = "idle"
    /\ netcalls = [w \in Workers |-> 0]
    /\ loaded = [w \in Workers |-> FALSE]
    /\ reported = [w \in Workers |-> FALSE]
    /\ cleared = [w \in Workers |-> FALSE]
    /\ stop_pc = [w \in Workers |-> "never"]
    /\ host_writes = {}
    /\ enqueued = [w \in Workers |-> <<>>]
    /\ executed = [w \in Workers |-> <<>>]

EditInit ==
    /\ is_editing = FALSE
    /\ edit_status = "ready"
    /\ timers = <<>>

GoogleInit ==
    /\ GENAI_AVAILABLE \in BOOLEAN
    /\ PIL_AVAILABLE \in BOOLEAN
    /\ client = "none"
    /\ use_sdk = FALSE
    /\ ncalls = 0
    /\ last = NoCall
    /\ RenderInit
    /\ EditInit
    /\ ProvidersIdle
    /\ UtilIdle

GoogleNext ==
    \/ \E ok \in BOOLEAN : NewClient(ok)
    \/ \E s \in SdkInputs, w \in Dims, h \in Dims : GenerateImage(s, w, h)
    \/ \E s \in SdkInputs, w \in Dims, h \in Dims : EditImage(s, w, h)

SpecGoogle == GoogleInit /\ [][GoogleNext]_vars

WorkersInit == GoogleIdle /\ RenderInit /\ EditInit /\ ProvidersIdle /\ UtilIdle

WorkersNext ==
    \/ \E path \in AiRenderPaths : ai_render(path)
    \/ stop_render
    \/ reset_state
    \/ \E w \in Workers : ThreadStop(w)
    \/ \E w \in Workers : StartAPIThread(w)
    \/ \E w \in Workers : FullStart(w)
    \/ \E w \in Workers : FullAfterRender(w)
    \/ \E w \in Workers : APIStart(w)
    \/ \E w \in Workers, reference_image \in ReferenceImages, pil \in BOOLEAN :
           Call(w, reference_image, pil)
    \/ \E w \in Workers, raised \in BOOLEAN : Return(w, raised)
    \/ \E w \in Workers : Deliver(w)
    \/ \E w \in Workers : StartEditThread(w)
    \/ \E w \in Workers : EditStart(w)
    \/ \E w \in Workers, raised \in BOOLEAN : EditReturn(w, raised)
    \/ \E r \in RenderOutcomes : ProcessQueue(r, FALSE)
    \/ TimerFire(FALSE)

SpecWorkers == WorkersInit /\ [][WorkersNext]_vars

\* The requests as the main thread replays them: workers are started and run to
\* their end without a stop, and the body of a callback may raise.
ReplayNext ==
    \/ ai_render("ok")
    \/ \E w \in Workers : StartAPIThread(w)
    \/ \E w \in Workers : FullStart(w)
    \/ \E w \in Workers : FullAfterRender(w)
    \/ \E w \in Workers : APIStart(w)
    \/ \E w \in Workers, reference_image \in ReferenceImages, pil \in BOOLEAN :
           Call(w, reference_image, pil)
    \/ \E w \in Workers, raised \in BOOLEAN : Return(w, raised)
    \/ \E w \in Workers : Deliver(w)
    \/ \E w \in Workers : StartEditThread(w)
    \/ \E w \in Workers : EditStart(w)
    \/ \E w \in Workers, raised \in BOOLEAN : EditReturn(w, raised)
    \/ \E r \in RenderOutcomes, raised \in BOOLEAN : ProcessQueue(r, raised)
    \/ \E raised \in BOOLEAN : TimerFire(raised)

PartsInit == GoogleIdle /\ RenderInit /\ EditInit /\ ProvidersIdle /\ UtilIdle

SpecParts == PartsInit /\ [][PartsNext]_vars

SpecReplay == WorkersInit /\ [][ReplayNext]_vars

\* The edit requests alone. A started worker thread keeps running (edit_image returns
\* or raises within its timeouts) and Blender keeps running the timers that are due.
EditWorkerStep ==
    \/ \E w \in Workers : EditStart(w)
    \/ \E w \in Workers, raised \in BOOLEAN : EditReturn(w, raised)

EditTimerStep == \E raised \in BOOLEAN : TimerFire(raised)

EditNext ==
    \/ \E path \in ApplyEditPaths : apply_edit(path)
    \/ \E w \in Workers : StartEditThread(w)
    \/ EditWorkerStep
    \/ EditTimerStep

SpecEdit ==
    WorkersInit /\ [][EditNext]_vars /\ WF_vars(EditWorkerStep) /\ WF_vars(EditTimerStep)

ProvidersInit ==
    /\ GENAI_AVAILABLE = TRUE
    /\ PIL_AVAILABLE \in BOOLEAN
    /\ client = "none"
    /\ use_sdk = FALSE
    /\ ncalls = 0
    /\ last = NoCall
    /\ ProvidersIdle
    /\ RenderInit
    /\ EditInit
    /\ UtilIdle

SpecProviders == ProvidersInit /\ [][ProvidersNext]_vars

NamingInit ==
    /\ GoogleIdle
    /\ RenderInit
    /\ EditInit
    /\ ProvidersIdle
    /\ \E id \in ModelIds : gptgod = [NoGPTGod EXCEPT !.state = "config", !.config = id]
    /\ tcall = NoTierCall
    /\ rcall = NoRatioCall
    /\ composed = NoPrompt
    /\ SessionIdle

SpecNaming == NamingInit /\ [][NamingNext]_vars

TierInit ==
    /\ GENAI_AVAILABLE \in BOOLEAN
    /\ PIL_AVAILABLE \in BOOLEAN
    /\ client = "none"
    /\ use_sdk = FALSE
    /\ ncalls = 0
    /\ last = NoCall
    /\ RenderInit
    /\ EditInit
    /\ ProvidersIdle
    /\ UtilIdle

SpecTier == TierInit /\ [][TierNext]_vars


RatioInit == GoogleIdle /\ RenderInit /\ EditInit /\ ProvidersIdle /\ UtilIdle

SpecRatio == RatioInit /\ [][RatioNext]_vars


PromptInit == GoogleIdle /\ RenderInit /\ EditInit /\ ProvidersIdle /\ UtilIdle

SpecPrompt == PromptInit /\ [][PromptNext]_vars

StoreInit == GoogleIdle /\ RenderInit /\ EditInit /\ ProvidersIdle /\ UtilIdle

SpecStore == StoreInit /\ [][StoreNext]_vars

HistoryInit == GoogleIdle /\ RenderInit /\ EditInit /\ ProvidersIdle /\ UtilIdle

SpecHistory == HistoryInit /\ [][HistoryNext]_vars

ManagerInit == GoogleIdle /\ RenderInit /\ EditInit /\ ProvidersIdle /\ UtilIdle

\* Threads that are inside execute_in_main_thread go on running, and the host
\* runs a registered timer again and again.
SpecManager ==
    /\ ManagerInit
    /\ [][ManagerNext]_vars
    /\ \A t \in Workers :
         WF_vars(CheckRegistered(t) \/ Register(t) \/ SetRegistered(t))
    /\ WF_vars(ProcessQueueTimer)

\* ------------------------------------------------------------------ claims: google
RestEntries(trace) == Cardinality({i \in DOMAIN trace : trace[i] = "rest"})

\* The body of the SDK function raised (any exception, GeminiAPIError included).
SdkFailed ==
    /\ last.started_sdk
    /\ PIL_AVAILABLE
    /\ \/ last.op = "generate" /\ generate_sdk_body(last.sdk_resp).kind = "error"
       \/ last.op = "edit" /\ edit_sdk_body(last.sdk_resp).kind = "error"

\* C1: when generate_image is on the SDK path and the SDK call raises, the REST
\* function is entered exactly once and generate_image gives back exactly what it
\* gave (its image or its error); the result never stems from the SDK.
C1_SdkFailureFallsBackOnce ==
    (last.op = "generate" /\ last.started_sdk /\ last.sdk_resp = "raises") =>
        /\ RestEntries(last.trace) = 1
        /\ last.trace = <<"sdk", "rest">>
        /\ last.result = generate_with_rest(last.rest_resp)
        /\ last.result.src = "rest"

C1_Witness ==
    /\ last.op = "generate" /\ last.started_sdk /\ last.sdk_resp = "raises"
    /\ last.trace = <<"sdk", "rest">>
    /\ last.result.kind = "error"

\* C2: every failure on the SDK path, a structurally unexpected SDK response
\* included, makes the provider retry on the REST path, and the caller sees an error
\* only if the REST retry fails as well.
C2_EverySdkFailureRetriesRest ==
    SdkFailed =>
        /\ RestEntries(last.trace) = 1
        /\ last.result.src = "rest"

\* C10: a response with only text parts and no image gives the placeholder PNG, on
\* both transports and for both operations.
C10_TextOnlyGivesPlaceholder ==
    \/ /\ last.trace = <<"sdk">>
       /\ last.sdk_resp = "text_only"
    \/ /\ last.op /= "none"
       /\ last.trace[Len(last.trace)] = "rest"
       /\ rest_modules_imported
       /\ last.rest_resp = "text_only"
    => last.result.kind = "placeholder"

\* C12: a generate_image / edit_image call of the Google provider that fails, fails
\* with GeminiAPIError and with no other exception type.
C12_OnlyDispatchErrors ==
    (last.op /= "none" /\ last.result.kind = "error") =>
        last.result.exc = "GeminiAPIError"

\* C18: when a call falls back from the SDK to REST, the REST request carries the
\* tier (imageSize) and the aspect ratio that the caller's width and height
\* determine, for generate and for edit, whatever image is being edited.
C18_FallbackKeepsTierAndRatio ==
    (last.op /= "none" /\ last.trace = <<"sdk", "rest">>) =>
        /\ \A iw \in ImageDims, ih \in ImageDims, readable \in BOOLEAN :
              request_resolution("google", last.op, "rest", last.rest_width,
                                 last.rest_height, iw, ih, readable)
                = request_resolution("google", last.op, "rest", last.width,
                                     last.height, iw, ih, readable)
        /\ find_closest_ratio(last.rest_width, last.rest_height)
             = find_closest_ratio(last.width, last.height)

\* C25: on a client whose use_sdk is False no step makes it True again, and every
\* generate_image / edit_image call made then enters the REST function directly;
\* a call that fell back from the SDK leaves use_sdk False.
C25_DemotionIsPermanent ==
    [][/\ (client = "ready" /\ ~use_sdk) =>
            /\ ~use_sdk'
            /\ ncalls' /= ncalls => last'.trace = <<"rest">>
       /\ (ncalls' /= ncalls /\ last'.trace = <<"sdk", "rest">>) => ~use_sdk']_vars

\* Both libraries are installed, the client is demoted, and its second call went
\* to the REST function directly.
C25_Witness ==
    /\ GENAI_AVAILABLE /\ PIL_AVAILABLE
    /\ client = "ready" /\ ~use_sdk
    /\ ncalls = 2
    /\ ~last.started_sdk /\ last.trace = <<"rest">>

\* ------------------------------------------------------------------ claims: workers
RenderWorkers == {w \in Workers : kind[w] \in {"full", "api"}}

Queued(w, f) == \E i \in DOMAIN command_queue :
                    command_queue[i].w = w /\ command_queue[i].f = f

\* Positions of run() that lie before the entry into generate_image.
BeforeCall == {"start", "wait", "api_start", "precall"}

\* C3: a render worker whose stop() was first called at a position before the
\* provider call never issues the call, never hands over a result and ends, if it
\* ends, as cancelled.
C3_StopBeforeCallCancels ==
    \A w \in RenderWorkers :
        stop_pc[w] \in BeforeCall =>
            /\ netcalls[w] = 0
            /\ outcome[w] \in {"none", "cancelled"}
            /\ ~Queued(w, "load") /\ ~loaded[w]

\* C4: a render worker whose stop() was first called after generate_image had
\* returned an image, and before the hand-over, ends with the result handed over.
C4_StopAfterReturnStillDelivers ==
    \A w \in RenderWorkers :
        (stop_pc[w] = "returned" /\ pc[w] = "done") =>
            /\ outcome[w] = "succeeded"
            /\ Queued(w, "load") \/ loaded[w]

\* C5: once ai_render has started a worker, every worker started by an earlier
\* ai_render that is still alive has had its stop flag set.
C5_NewRenderStopsOld ==
    \A v \in Workers, w \in Workers :
        (v < w /\ kind[v] = "full" /\ kind[w] = "full" /\ is_alive(v)) =>
            stop_event[v]

\* C6: when every worker started by ai_render has ended, whichever way, and the
\* main thread has run every queued callback, is_rendering is False.
C6_FlagFalseWhenAllEnded ==
    (/\ \A w \in Workers : kind[w] \in {"none", "full"} /\ ~is_alive(w)
     /\ \E w \in Workers : pc[w] = "done"
     /\ command_queue = <<>>)
    => ~is_rendering

Waiting(list, cb) == \E i \in DOMAIN list : list[i] = cb

\* The error status of worker w is a callback waiting for the main thread.
ErrorStatusWaiting(w) ==
    IF kind[w] = "edit"
    THEN Waiting(timers, update_status(w, "error"))
    ELSE Waiting(command_queue, update_render_status(w, "error", FALSE))

\* The callback that clears the busy flag of worker w is waiting for the main thread.
ClearingWaiting(w) ==
    IF kind[w] = "edit"
    THEN Waiting(timers, Callback(w, "reset_flag", "none", FALSE))
    ELSE Waiting(command_queue, update_render_status(w, "error", FALSE))

\* C7: a worker (render or edit) in whose run() an exception was raised has ended
\* with the exception caught: its error status and the clearing of its busy flag
\* are callbacks waiting for the main thread, or the main thread has run them.
C7_ExceptionsCaughtAndReported ==
    \A w \in Workers :
        outcome[w] = "failed" =>
            /\ pc[w] = "done"
            /\ ErrorStatusWaiting(w) \/ reported[w]
            /\ ClearingWaiting(w) \/ cleared[w]

C7_Witness ==
    \E v \in Workers, w \in Workers :
        /\ kind[v] = "full" /\ outcome[v] = "failed" /\ netcalls[v] = 1
        /\ kind[w] = "edit" /\ outcome[w] = "failed"
        /\ reported[v] /\ cleared[v] /\ reported[w] /\ cleared[w]
        /\ command_queue = <<>> /\ timers = <<>>
        /\ ~is_rendering /\ ~is_editing
        /\ status_text = "error" /\ edit_status = "error"

\* A worker started by ai_render whose request is over for the user: a later
\* ai_render has started another worker, or stop_render was the last to write
\* the status.
Stale(v) ==
    /\ kind[v] = "full"
    /\ \/ \E w \in Workers : v < w /\ kind[w] = "full"
       \/ status_text = "cancelled"

\* The main thread takes the oldest callback, queued by worker v, and runs it.
RunsCallbackOf(v) ==
    /\ command_queue /= <<>>
    /\ Head(command_queue).w = v
    /\ command_queue' = Tail(command_queue)

\* Both workers are inside generate_image; load_result_image puts the image of
\* either into the same datablock and scene properties.
CallsInFlight(v, w) == v /= w /\ pc[v] = "incall" /\ pc[w] = "incall"

\* C19: once a render request was cancelled by stop_render or superseded by a new
\* ai_render, no step loads the result of its worker and no callback of its worker
\* changes status_text or is_rendering; and two workers started by ai_render never
\* have their provider calls in flight at the same time.
C19_StaleWorkerIsSilent ==
    /\ [][\A v \in Workers :
            Stale(v) =>
                /\ loaded'[v] = loaded[v]
                /\ RunsCallbackOf(v) => UNCHANGED <<status_text, is_rendering>>]_vars
    /\ [](\A v \in Workers, w \in Workers :
            (kind[v] = "full" /\ kind[w] = "full") => ~CallsInFlight(v, w))

\* C20: every write to Blender data made so far (properties, render settings, image
\* datablocks and their file settings) was executed by the main thread; no step of
\* a worker's run(), the saving of the reference image included, has made one.
C20_HostWritesOnMainThread == \A x \in host_writes : x.thread = "main"

\* ------------------------------------------------------------------ claims: providers
GPTGodShapes == <<"image", "images", "data", "markdown", "bare">>

\* A place of a GPTGod response yields an image: a URL whose download gives an
\* image, or a data URL whose payload decodes to one.
Yields(e) == e.t \in {"url", "data"} /\ e.body \in {"png", "jpeg"}

FirstYielding(r) ==
    IF \E k \in 1..5 : Yields(r[GPTGodShapes[k]])
    THEN CHOOSE k \in 1..5 : /\ Yields(r[GPTGodShapes[k]])
                             /\ \A j \in 1..(k - 1) : ~Yields(r[GPTGodShapes[j]])
    ELSE 0

\* No URL of the response downloads to, and no payload decodes to, zero bytes.
NoEmptyBody(r) == \A k \in 1..5 : r[GPTGodShapes[k]].body /= "empty"

\* C8: an answered GPTGod call returns the image of the first of the five shapes,
\* in their order, that yields an image, and fails only when none of them does.
C8_FirstYieldingShapeWins ==
    (pcall.provider = "gptgod" /\ pcall.http = "ok" /\ NoEmptyBody(pcall.resp)) =>
        IF FirstYielding(pcall.resp) = 0
        THEN pcall.result.kind = "error"
        ELSE /\ pcall.result.kind = "image"
             /\ pcall.result.shape = FirstYielding(pcall.resp)

\* C9: a provider call gives image bytes that are not empty, or raises.
C9_NoEmptySuccess ==
    pcall.provider /= "none" =>
        \/ pcall.result.kind = "error"
        \/ pcall.result.kind = "image" /\ pcall.result.bytes /= "empty"

\* C11: a successful provider result that is not empty is PNG data labelled
\* image/png, whatever the upstream service sent.
C11_SuccessIsPng ==
    (pcall.provider /= "none" /\ pcall.result.kind = "image"
        /\ pcall.result.bytes /= "empty") =>
        /\ pcall.result.bytes = "png"
        /\ pcall.result.mime = "image/png"

\* ------------------------------------------------------------------ claims: request parameters
EndsWith(s, suffix) ==
    Len(s) >= Len(suffix) /\ SubSeq(s, Len(s) - Len(suffix) + 1, Len(s)) = suffix

\* The configured id without the resolution suffix it ends with, if it ends with one.
StripSuffix(id) ==
    IF EndsWith(id, SUFFIX_2K) \/ EndsWith(id, SUFFIX_4K)
    THEN SubSeq(id, 1, Len(id) - 3)
    ELSE id

Configured == IF gptgod.config = <<>> THEN DEFAULT_MODEL ELSE gptgod.config

\* C13: the model name sent is the configured id without the resolution suffix it
\* ends with, followed by the suffix of the requested tier and nothing else.
C13_ModelNameIsBasePlusTier ==
    gptgod.state = "sent" =>
        gptgod.sent = get_model_for_resolution(StripSuffix(Configured),
                                               gptgod.width, gptgod.height)

\* The tier the thresholds give for a size.
Tier(width, height) ==
    IF width >= 4096 \/ height >= 4096 THEN "4K"
    ELSE IF width >= 2048 \/ height >= 2048 THEN "2K"
    ELSE "1K"

\* C14 as stated: whatever the provider, the transport and the operation, the tier
\* sent is the one the thresholds give for the (width, height) passed.
C14_TierIsFunctionOfSize ==
    tcall.provider /= "none" => tcall.tier = Tier(tcall.width, tcall.height)

\* The source image of an edit is measured by the Google provider.
Measured ==
    tcall.transport = "sdk" \/ (PIL_AVAILABLE /\ tcall.readable)

\* C14: for a width and a height above zero the tier sent is the one the thresholds
\* give, for every provider, transport and operation; with a width or height of
\* zero the Google edit sends the tier of the source image's own size (1K when it
\* cannot measure it) and every other request the tier of the values passed.
C14_TierOfPositiveSize ==
    tcall.provider /= "none" =>
        IF \/ tcall.width > 0 /\ tcall.height > 0
           \/ ~(tcall.provider = "google" /\ tcall.op = "edit")
        THEN tcall.tier = Tier(tcall.width, tcall.height)
        ELSE tcall.tier = IF Measured THEN Tier(tcall.iw, tcall.ih) ELSE "1K"

C14_Witness ==
    /\ tcall.provider = "google" /\ tcall.op = "edit" /\ tcall.transport = "rest"
    /\ tcall.width = 2048 /\ tcall.height = 1024
    /\ tcall.iw = 4096
    /\ tcall.tier = "2K"


LongerSide == IF rcall.width >= rcall.height THEN rcall.width ELSE rcall.height

Distance(width, height, ratio_str) ==
    LET a == parse_ratio(ratio_str)[1]
        b == parse_ratio(ratio_str)[2]
        diff == width * b - a * height
    IN  [num |-> IF diff < 0 THEN -diff ELSE diff, den |-> b]

Nearer(x, y) == x.num * y.den < y.num * x.den

NearestRatio(width, height) ==
    SUPPORTED_RATIOS[CHOOSE i \in DOMAIN SUPPORTED_RATIOS :
        /\ \A j \in DOMAIN SUPPORTED_RATIOS :
              ~Nearer(Distance(width, height, SUPPORTED_RATIOS[j]),
                      Distance(width, height, SUPPORTED_RATIOS[i]))
        /\ \A j \in 1..(i - 1) :
              Nearer(Distance(width, height, SUPPORTED_RATIOS[i]),
                     Distance(width, height, SUPPORTED_RATIOS[j]))]

Classified == IF rcall.op = "find" THEN <<rcall.width, rcall.height>>
              ELSE <<rcall.new_width, rcall.new_height>>

\* C16: find_closest_ratio returns the supported ratio whose value is nearest to
\* width / height, the earliest in the list's order on a tie, and "1:1" when
\* width or height is not above zero.
C16_NearestEarliestOnTie ==
    rcall.op \in {"find", "adjusted"} =>
        rcall.closest_ratio = IF Classified[1] <= 0 \/ Classified[2] <= 0 THEN "1:1"
                              ELSE NearestRatio(Classified[1], Classified[2])


\* ------------------------------------------------------------------ claims: prompts
\* C17: for every user text other than the finalize marker, and every combination
\* of the reference, colour-mode and mask flags, the prompt built ends with the
\* user's text exactly as given: never trimmed, truncated, rewritten or left out.
C17_PromptEndsWithUserText ==
    (composed.fn /= "none" /\ composed.user_prompt /= FINALIZE_COMPOSITE) =>
        EndsWith(composed.full_prompt, composed.user_prompt)

\* ------------------------------------------------------------------ claims: main thread
\* The callbacks of worker w that wait for the main thread, oldest first.
Pending(w) ==
    LET OfW(cb) == cb.w = w
    IN  SelectSeq(command_queue, OfW) \o SelectSeq(timers, OfW)

Called(w) == [i \in DOMAIN executed[w] |-> executed[w][i].cb]

\* C21: the callbacks a worker (render or edit) has enqueued are, in the order of
\* enqueueing, those the main thread has called followed by those still waiting:
\* each is called once, none is skipped or overtaken, and a callback that raised
\* leaves the later ones in place.
C21_CallbacksOnceInOrder ==
    \A w \in Workers : enqueued[w] = Called(w) \o Pending(w)

\* A render worker and an edit worker have ended with success, one callback of each
\* raised, and the main thread has called all their callbacks after it.
C21_Witness ==
    \E v \in Workers, w \in Workers :
        /\ kind[v] = "full" /\ outcome[v] = "succeeded"
        /\ kind[w] = "edit" /\ outcome[w] = "succeeded"
        /\ Pending(v) = <<>> /\ Pending(w) = <<>>
        /\ Len(executed[v]) = 6 /\ executed[v][5].raised /\ ~executed[v][6].raised
        /\ Len(executed[w]) = 6 /\ executed[w][3].raised /\ ~executed[w][6].raised

\* ------------------------------------------------------------------ claims: edit requests
\* An edit worker has been started and has not ended.
EditRunning == \E w \in Workers : kind[w] = "edit" /\ is_alive(w)

C26_EditingFlagIsReset ==
    /\ [][\A path \in ApplyEditPaths \ {"no_image", "no_prompt", "no_key"} :
            (apply_edit(path) /\ kind' = kind) => ~is_editing']_vars
    /\ is_editing ~> ~is_editing

\* One edit worker has raised and one has succeeded, the main thread has written
\* image data, and the reset_flag of both workers has run.
C26_Witness ==
    \E v \in Workers, w \in Workers :
        /\ kind[v] = "edit" /\ outcome[v] = "failed" /\ cleared[v]
        /\ kind[w] = "edit" /\ outcome[w] = "succeeded" /\ cleared[w]
        /\ HostWrite("main", "image") \in host_writes
        /\ timers = <<>>
        /\ ~is_editing

\* ------------------------------------------------------------------ claims: request parts
Optional(flag, part) == IF flag THEN <<part>> ELSE <<>>

\* C23: a request the google provider builds, on the SDK and on the REST transport
\* alike, holds for generate the prompt, the structure image and the reference
\* image, for edit the prompt, the reference image, the source image and the mask,
\* the reference and the mask being there exactly when the prompt template was
\* chosen with has_reference and has_mask.
C23_GoogleImageOrder ==
    (request.provider = "google" /\ request.body.sent) =>
        request.body.parts =
            IF request.op = "generate"
            THEN <<"prompt", "depth">> \o Optional(request.has_reference, "reference")
            ELSE <<"prompt">> \o Optional(request.has_reference, "reference")
                 \o <<"source">> \o Optional(request.has_mask, "mask")

\* C24: a request the yunwu provider builds holds the text part first, then for
\* generate the primary image and the reference image if one is given, for edit the
\* source image, the reference image if given and the mask if given.
C24_YunwuImageOrder ==
    (request.provider = "yunwu" /\ request.body.sent) =>
        request.body.parts =
            IF request.op = "generate"
            THEN <<"prompt", "depth">> \o Optional(request.reference /= "absent", "reference")
            ELSE <<"prompt", "source">>
                 \o Optional(request.reference /= "absent", "reference")
                 \o Optional(request.mask /= "absent", "mask")

\* A yunwu edit request with a reference and a mask was built.
C24_Witness ==
    /\ request.provider = "yunwu" /\ request.op = "edit"
    /\ request.reference = "image" /\ request.mask = "image"
    /\ request.body = Parts(<<"prompt", "source", "reference", "mask">>)

\* ------------------------------------------------------------------ claims: provider store
NoDuplicateTypes(store) ==
    \A i, j \in 1..Len(store) : store[i].type = store[j].type => i = j

\* C27: the store never holds two entries of one provider type, and an
\* update_provider call for a type leaves the entries of the other types as they
\* were, creates the entry of the type when there was none, sets its apiKey, and
\* keeps its baseUrl / model when the argument is None.
C27_OneEntryPerType ==
    /\ []NoDuplicateTypes(providers)
    /\ [][(updated' /= updated \/ providers' /= providers) =>
            LET u == updated'
                i == get_provider_by_type(providers, u.type)
                k == get_provider_by_type(providers', u.type)
            IN /\ k /= 0
               /\ providers'[k].apiKey = u.api_key
               /\ \A j \in 1..Len(providers) : j /= i => providers'[j] = providers[j]
               /\ i /= 0 =>
                    /\ k = i
                    /\ Len(providers') = Len(providers)
                    /\ providers'[k].baseUrl =
                         IF u.base_url = None THEN providers[i].baseUrl ELSE u.base_url
                    /\ providers'[k].model =
                         IF u.model = None THEN providers[i].model ELSE u.model
               /\ i = 0 =>
                    /\ k = Len(providers) + 1
                    /\ Len(providers') = Len(providers) + 1
                    /\ providers'[k].baseUrl =
                         IF u.base_url = None THEN "" ELSE u.base_url
                    /\ providers'[k].model = IF u.model = None THEN "" ELSE u.model]_vars

\* Two types are stored, and the last call, an API key update of the first entry
\* with base_url = None and model = None, kept the URL and the model of that entry.
C27_Witness ==
    /\ Len(providers) = 2
    /\ providers[1].type = "google"
    /\ providers[1].baseUrl = "custom"
    /\ providers[1].model = "custom"
    /\ providers[1].apiKey = "key"
    /\ providers[2].type = "openrouter"
    /\ updated = [type |-> "google", api_key |-> "key", base_url |-> None,
                  model |-> None]

ImageNames(history) == {history[i].image_name : i \in 1..Len(history)}

\* C29: the history never holds more than 10 entries; a load that adds an entry
\* keeps the new entry as the last one, removes entries only when the limit would
\* be passed and only from the oldest end, and removes the images of the removed
\* entries and of no entry that is kept.
C29_HistoryBounded ==
    /\ [](Len(render_history) <= HISTORY_LIMIT)
    /\ [][nloads' /= nloads =>
            LET new == [prompt |-> "photorealistic",
                        image_name |-> permanent_name(nloads')]
                dropped == Len(render_history) + 1 - Len(render_history')
            IN /\ dropped = IF Len(render_history) = HISTORY_LIMIT THEN 1 ELSE 0
               /\ render_history' =
                    SubSeq(render_history, dropped + 1, Len(render_history)) \o <<new>>
               /\ ImageNames(render_history') \subseteq data_images'
               /\ \A i \in 1..dropped : render_history[i].image_name \notin data_images'
      ]_vars

\* Twelve entries were added and none deleted: the entries of the first two loads
\* and their images are gone, the last ten are kept with their images.
C29_Witness ==
    /\ nloads = 12
    /\ Len(render_history) = HISTORY_LIMIT
    /\ render_history[1].image_name = permanent_name(3)
    /\ render_history[HISTORY_LIMIT].image_name = permanent_name(12)
    /\ permanent_name(1) \notin data_images
    /\ permanent_name(2) \notin data_images
    /\ ImageNames(render_history) \subseteq data_images

\* ------------------------------------------------------------------ claims: thread manager
Commands ==
    {Command(t, n, after) : t \in Workers, n \in 1..MaxCommands, after \in 0..MaxStops}

HasRun(c) == \E i \in DOMAIN executed[c.w] : executed[c.w][i].cb = c

\* A command put after a stop_timer call is run unless stop_timer is called again.
AfterStopExecuted ==
    \A c \in Commands :
        (c.after > 0 /\ c \in {enqueued[c.w][i] : i \in DOMAIN enqueued[c.w]})
            ~> (HasRun(c) \/ stops > c.after)

\* C30: the host never holds more than one _process_queue timer, whatever the
\* interleaving of the threads that call execute_in_main_thread, and a command
\* put after stop_timer is run by a timer registered again.
C30_SingleTimer ==
    /\ [](process_queue_timers <= 1)
    /\ AfterStopExecuted

====
